---- MODULE Spec2Model ----
(***************************************************************************)
(* Model of the RockPaperScissors ledger contract                          *)
(* (src/unnamed/part_003, Solidity).  Every external function is one       *)
(* action that models the whole transaction.  For each function, the       *)
(* operator <function>Err gives the revert reason of a call in the current *)
(* state ("" when no require and no library call reverts).  A reverting    *)
(* call is rolled back by the EVM: storage, ACL and log are untouched.     *)
(* eventLog holds, per game id, the events emitted for it, oldest first.   *)
(***************************************************************************)
EXTENDS Integers, Sequences, FiniteSets, TLC

\* ---------------------------------------------------------------- bounds
NumPlayers == 2     \* externally owned accounts 1..NumPlayers
MaxGames == 2       \* playGame is not offered once this many games exist
MaxTime == 1        \* block.timestamp ranges over 0..MaxTime
MaxPlain == 4       \* plaintexts of an euint8 commitment range over 0..MaxPlain

\* ------------------------------------------------------ program constants
ROCK == 1
PAPER == 2
SCISSORS == 3
DRAW == 0
WIN == 1
LOSS == 2

\* uint8 has 2^8 values; abi.decode(.., (uint8)) rejects a word above the range
Uint8Range == 256

\* --------------------------------------------------------------- domains
Players == 1..NumPlayers
ZeroAddress == 0
ContractAddr == NumPlayers + 1
GameIds == 0..MaxGames
CallIds == 0..(MaxGames + 1)
PlainValues == 0..MaxPlain
RandomWords == 0..2
Cleartexts == PlainValues \cup {Uint8Range}

\* A ciphertext handle names the account that produced the input and the
\* plaintext it encrypts; the contract never reads either (they are what
\* the coprocessor and the KMS know about the handle).
ZeroHandle == [user |-> ZeroAddress, plain |-> 0]
ExternalHandles == [user : Players, plain : PlainValues]

\* An input proof is the coprocessors' attestation of a handle for one
\* account, or a forgery.
InputProofs == {"attested", "forged"}

\* A decryption proof is the KMS signature over (handle, cleartext), which
\* the KMS issues only for a publicly decryptable handle and its plaintext,
\* or a forgery.
NoProof == [signed |-> FALSE, h |-> ZeroHandle, c |-> 0]
KmsProof(h) == [signed |-> TRUE, h |-> h, c |-> h.plain]

VARIABLES gameIdCounter, games, playerActiveGame, playerStats,
          publiclyDecryptable, aclAllowed, eventLog

ledger == <<gameIdCounter, games, playerActiveGame, playerStats>>
fhe == <<publiclyDecryptable, aclAllowed>>
vars == <<gameIdCounter, games, playerActiveGame, playerStats,
          publiclyDecryptable, aclAllowed, eventLog>>

\* The browser client (src/frontend/App.tsx, src/unnamed/part_002):
\*   app      the React state of App: gameStatus, currentGameId, history,
\*            isLoading
\*   running  the invocations of handleMoveSelect and handleResolve that
\*            have not ended, each with its locals and the await it is
\*            suspended at
\*   sdk      the module state of the FHEVM utilities: fhevmInstance, the
\*            calls of initFhevm and the number of createInstance runs
\*   io       argument and result of one call of a pure client function
VARIABLES app, running, sdk, io

clientVars == <<app, running, sdk, io>>
allVars == <<vars, clientVars>>

\* ---------------------------------------------------------------- structs
EmptyGame == [player |-> ZeroAddress, encryptedPlayerMove |-> ZeroHandle,
              opponentMove |-> 0, createdAt |-> 0, isResolved |-> FALSE,
              result |-> 0, revealedPlayerMove |-> 0, resolveRequested |-> FALSE]

EmptyStats == [wins |-> 0, losses |-> 0, draws |-> 0, totalGames |-> 0]

\* ------------------------------------------------------------ pure helpers
\* variant: the + 1 that shifts 0..2 to 1..3 is missing
generateRandomMove_NoShift(random) == random % 3

generateRandomMove(random) == (random % 3) + 1

\* variant: the Scissors/Rock line returns WIN
determineWinner_ScissorsBeatsRock(playerMove, opponentMove) ==
    IF playerMove = opponentMove THEN DRAW
    ELSE IF playerMove = ROCK /\ opponentMove = SCISSORS THEN WIN
    ELSE IF playerMove = SCISSORS /\ opponentMove = ROCK THEN WIN
    ELSE IF playerMove = PAPER /\ opponentMove = ROCK THEN WIN
    ELSE IF playerMove = ROCK /\ opponentMove = PAPER THEN LOSS
    ELSE IF playerMove = SCISSORS /\ opponentMove = PAPER THEN WIN
    ELSE IF playerMove = PAPER /\ opponentMove = SCISSORS THEN LOSS
    ELSE DRAW

determineWinner(playerMove, opponentMove) ==
    IF playerMove = opponentMove THEN DRAW
    ELSE IF playerMove = ROCK /\ opponentMove = SCISSORS THEN WIN
    ELSE IF playerMove = SCISSORS /\ opponentMove = ROCK THEN LOSS
    ELSE IF playerMove = PAPER /\ opponentMove = ROCK THEN WIN
    ELSE IF playerMove = ROCK /\ opponentMove = PAPER THEN LOSS
    ELSE IF playerMove = SCISSORS /\ opponentMove = PAPER THEN WIN
    ELSE IF playerMove = PAPER /\ opponentMove = SCISSORS THEN LOSS
    ELSE DRAW

\* the arguments for which determineWinner reaches its last line, the
\* "return DRAW" after the six comparisons
determineWinnerFallsThrough(playerMove, opponentMove) ==
    /\ playerMove # opponentMove
    /\ ~(playerMove = ROCK /\ opponentMove = SCISSORS)
    /\ ~(playerMove = SCISSORS /\ opponentMove = ROCK)
    /\ ~(playerMove = PAPER /\ opponentMove = ROCK)
    /\ ~(playerMove = ROCK /\ opponentMove = PAPER)
    /\ ~(playerMove = SCISSORS /\ opponentMove = PAPER)
    /\ ~(playerMove = PAPER /\ opponentMove = SCISSORS)

\* FHE.fromExternal: the input proof must attest the handle for msg.sender
fromExternalOk(encryptedMove, proof, sender) ==
    proof = "attested" /\ encryptedMove.user = sender

\* variant: the signature is checked against the handle only
checkSignaturesOk_IgnoresCleartexts(handle, cleartexts, decryptionProof) ==
    /\ decryptionProof.signed
    /\ decryptionProof.h = handle

\* FHE.checkSignatures: the proof must be a KMS signature over exactly the
\* handles list and the cleartexts submitted
checkSignaturesOk(handle, cleartexts, decryptionProof) ==
    /\ decryptionProof.signed
    /\ decryptionProof.h = handle
    /\ decryptionProof.c = cleartexts

\* abi.decode(cleartexts, (uint8)) reverts on a word outside uint8
abiDecodeOk(cleartexts) == cleartexts < Uint8Range
abiDecodeUint8(cleartexts) == cleartexts % Uint8Range

\* The decryption proofs a caller can hold in the current state
DecryptionProofs == {NoProof} \cup {KmsProof(h) : h \in publiclyDecryptable}

Emit(gameId, event) == eventLog' = [eventLog EXCEPT ![gameId] = Append(@, event)]

\* ------------------------------------------------------------------- Init
Init ==
    /\ gameIdCounter = 1
    /\ games = [g \in GameIds |-> EmptyGame]
    /\ playerActiveGame = [p \in Players |-> 0]
    /\ playerStats = [p \in Players |-> EmptyStats]
    /\ publiclyDecryptable = {}
    /\ aclAllowed = {}
    /\ eventLog = [g \in GameIds |-> << >>]

\* No page is loaded: the ledger is driven by its accounts directly.
NoPage ==
    /\ app = [gameStatus |-> "IDLE", currentGameId |-> 0,
              history |-> << >>, isLoading |-> FALSE]
    /\ running = << >>

NoSdk == sdk = [fhevmInstance |-> 0, loaded |-> FALSE, created |-> 0, calls |-> << >>]

NoIo == io = [fn |-> "none"]

NoClient == NoPage /\ NoSdk /\ NoIo

\* ---------------------------------------------------------------- playGame
\* block.timestamp of the block the call is mined in: no earlier than the
\* block of any game created before
BlockTimestamps ==
    {t \in 0..MaxTime : \A g \in 1..(gameIdCounter - 1) : games[g].createdAt <= t}

\* variant: the active-game require is missing
playGameErr_NoActiveCheck(sender, encryptedMove, proof) ==
    IF ~fromExternalOk(encryptedMove, proof, sender) THEN "InvalidInputProof"
    ELSE ""

\* variant: the input proof is verified before the active-game check
playGameErr_ProofFirst(sender, encryptedMove, proof) ==
    IF ~fromExternalOk(encryptedMove, proof, sender) THEN "InvalidInputProof"
    ELSE IF playerActiveGame[sender] # 0 THEN "Player already has an active game"
    ELSE ""

\* variant: the input proof is not verified
playGameErr_NoProofCheck(sender, encryptedMove, proof) ==
    IF playerActiveGame[sender] # 0 THEN "Player already has an active game"
    ELSE ""

playGameErr(sender, encryptedMove, proof) ==
    IF playerActiveGame[sender] # 0 THEN "Player already has an active game"
    ELSE IF ~fromExternalOk(encryptedMove, proof, sender) THEN "InvalidInputProof"
    ELSE ""

playGame(sender, encryptedMove, proof) ==
    /\ gameIdCounter <= MaxGames
    /\ IF playGameErr(sender, encryptedMove, proof) # ""
         THEN UNCHANGED vars
       ELSE \E random \in RandomWords, timestamp \in BlockTimestamps :
         LET opponentMove == generateRandomMove(random)
             gameId == gameIdCounter
         IN /\ gameIdCounter' = gameIdCounter + 1
            /\ games' = [games EXCEPT ![gameId] =
                  [player |-> sender,
                   encryptedPlayerMove |-> encryptedMove,
                   opponentMove |-> opponentMove,
                   createdAt |-> timestamp,
                   isResolved |-> FALSE,
                   result |-> 0,
                   revealedPlayerMove |-> 0,
                   resolveRequested |-> FALSE]]
            /\ aclAllowed' = aclAllowed \cup
                  {<<encryptedMove, ContractAddr>>, <<encryptedMove, sender>>}
            /\ playerActiveGame' = [playerActiveGame EXCEPT ![sender] = gameId]
            /\ eventLog' = [eventLog EXCEPT ![gameId] = @ \o
                  << [name |-> "GameCreated", player |-> sender,
                      handle |-> encryptedMove],
                     [name |-> "OpponentMoveGenerated",
                      opponentMove |-> opponentMove] >>]
            /\ UNCHANGED <<playerStats, publiclyDecryptable>>

\* ---------------------------------------------------------- requestResolve
\* variant: the resolveRequested require is missing
requestResolveErr_NoRequestedCheck(sender, gameId) ==
    IF ~(gameId < gameIdCounter) THEN "Game does not exist"
    ELSE IF games[gameId].player # sender THEN "Only player can request resolve"
    ELSE IF games[gameId].isResolved THEN "Game already resolved"
    ELSE ""

\* variant: the owner require is missing
requestResolveErr_NoOwnerCheck(sender, gameId) ==
    IF ~(gameId < gameIdCounter) THEN "Game does not exist"
    ELSE IF games[gameId].isResolved THEN "Game already resolved"
    ELSE IF games[gameId].resolveRequested THEN "Resolve already requested"
    ELSE ""

\* variant: the check that the game is not yet resolved is missing
requestResolveErr_NoResolvedCheck(sender, gameId) ==
    IF ~(gameId < gameIdCounter) THEN "Game does not exist"
    ELSE IF games[gameId].player # sender THEN "Only player can request resolve"
    ELSE IF games[gameId].resolveRequested THEN "Resolve already requested"
    ELSE ""

requestResolveErr(sender, gameId) ==
    IF ~(gameId < gameIdCounter) THEN "Game does not exist"
    ELSE IF games[gameId].player # sender THEN "Only player can request resolve"
    ELSE IF games[gameId].isResolved THEN "Game already resolved"
    ELSE IF games[gameId].resolveRequested THEN "Resolve already requested"
    ELSE ""

\* variant: requesting resolution also clears the caller's active-game entry
requestResolve_ClearsIndex(sender, gameId) ==
    IF requestResolveErr(sender, gameId) # ""
      THEN UNCHANGED vars
    ELSE
      LET game == games[gameId]
      IN /\ games' = [games EXCEPT ![gameId].resolveRequested = TRUE]
         /\ publiclyDecryptable' = publiclyDecryptable \cup {game.encryptedPlayerMove}
         /\ playerActiveGame' = [playerActiveGame EXCEPT ![sender] = 0]
         /\ Emit(gameId, [name |-> "ResolveRequested",
                          handle |-> game.encryptedPlayerMove])
         /\ UNCHANGED <<gameIdCounter, playerStats, aclAllowed>>

requestResolve(sender, gameId) ==
    IF requestResolveErr(sender, gameId) # ""
      THEN UNCHANGED vars
    ELSE
      LET game == games[gameId]
      IN /\ games' = [games EXCEPT ![gameId].resolveRequested = TRUE]
         /\ publiclyDecryptable' = publiclyDecryptable \cup {game.encryptedPlayerMove}
         /\ Emit(gameId, [name |-> "ResolveRequested",
                          handle |-> game.encryptedPlayerMove])
         /\ UNCHANGED <<gameIdCounter, playerActiveGame, playerStats, aclAllowed>>

\* ------------------------------------------------------------- resolveGame
\* variant: the final else counts a loss
recordStats_ElseIsLoss(stats, result) ==
    LET s1 == [stats EXCEPT !.totalGames = @ + 1]
    IN IF result = WIN THEN [s1 EXCEPT !.wins = @ + 1]
       ELSE [s1 EXCEPT !.losses = @ + 1]

\* variant: totalGames is not incremented for a draw
recordStats_DrawNotCounted(stats, result) ==
    IF result = WIN THEN [stats EXCEPT !.totalGames = @ + 1, !.wins = @ + 1]
    ELSE IF result = LOSS THEN [stats EXCEPT !.totalGames = @ + 1, !.losses = @ + 1]
    ELSE [stats EXCEPT !.draws = @ + 1]

recordStats(stats, result) ==
    LET s1 == [stats EXCEPT !.totalGames = @ + 1]
    IN IF result = WIN THEN [s1 EXCEPT !.wins = @ + 1]
       ELSE IF result = LOSS THEN [s1 EXCEPT !.losses = @ + 1]
       ELSE [s1 EXCEPT !.draws = @ + 1]

\* variant: FHE.checkSignatures is not called
resolveGameErr_NoSignatureCheck(gameId, cleartexts, decryptionProof) ==
    IF ~(gameId < gameIdCounter) THEN "Game does not exist"
    ELSE IF games[gameId].isResolved THEN "Game already resolved"
    ELSE IF ~games[gameId].resolveRequested THEN "Must request resolve first"
    ELSE IF ~abiDecodeOk(cleartexts) THEN "DecodeFailed"
    ELSE IF ~(abiDecodeUint8(cleartexts) >= ROCK /\ abiDecodeUint8(cleartexts) <= SCISSORS)
      THEN "Invalid player move"
    ELSE ""

\* variant: the resolveRequested require is missing
resolveGameErr_NoRequestedCheck(gameId, cleartexts, decryptionProof) ==
    IF ~(gameId < gameIdCounter) THEN "Game does not exist"
    ELSE IF games[gameId].isResolved THEN "Game already resolved"
    ELSE IF ~checkSignaturesOk(games[gameId].encryptedPlayerMove, cleartexts,
                               decryptionProof)
      THEN "ProofVerificationFailed"
    ELSE IF ~abiDecodeOk(cleartexts) THEN "DecodeFailed"
    ELSE IF ~(abiDecodeUint8(cleartexts) >= ROCK /\ abiDecodeUint8(cleartexts) <= SCISSORS)
      THEN "Invalid player move"
    ELSE ""

\* variant: the isResolved require is missing
resolveGameErr_NoResolvedCheck(gameId, cleartexts, decryptionProof) ==
    IF ~(gameId < gameIdCounter) THEN "Game does not exist"
    ELSE IF ~games[gameId].resolveRequested THEN "Must request resolve first"
    ELSE IF ~checkSignaturesOk(games[gameId].encryptedPlayerMove, cleartexts,
                               decryptionProof)
      THEN "ProofVerificationFailed"
    ELSE IF ~abiDecodeOk(cleartexts) THEN "DecodeFailed"
    ELSE IF ~(abiDecodeUint8(cleartexts) >= ROCK /\ abiDecodeUint8(cleartexts) <= SCISSORS)
      THEN "Invalid player move"
    ELSE ""

\* variant: the requested check comes before the resolved check
resolveGameErr_RequestedFirst(gameId, cleartexts, decryptionProof) ==
    IF ~(gameId < gameIdCounter) THEN "Game does not exist"
    ELSE IF ~games[gameId].resolveRequested THEN "Must request resolve first"
    ELSE IF games[gameId].isResolved THEN "Game already resolved"
    ELSE IF ~checkSignaturesOk(games[gameId].encryptedPlayerMove, cleartexts,
                               decryptionProof)
      THEN "ProofVerificationFailed"
    ELSE IF ~abiDecodeOk(cleartexts) THEN "DecodeFailed"
    ELSE IF ~(abiDecodeUint8(cleartexts) >= ROCK /\ abiDecodeUint8(cleartexts) <= SCISSORS)
      THEN "Invalid player move"
    ELSE ""

\* variant: the range check on the decoded move is missing
resolveGameErr_NoRangeCheck(gameId, cleartexts, decryptionProof) ==
    IF ~(gameId < gameIdCounter) THEN "Game does not exist"
    ELSE IF games[gameId].isResolved THEN "Game already resolved"
    ELSE IF ~games[gameId].resolveRequested THEN "Must request resolve first"
    ELSE IF ~checkSignaturesOk(games[gameId].encryptedPlayerMove, cleartexts,
                               decryptionProof)
      THEN "ProofVerificationFailed"
    ELSE IF ~abiDecodeOk(cleartexts) THEN "DecodeFailed"
    ELSE ""

resolveGameErr(gameId, cleartexts, decryptionProof) ==
    IF ~(gameId < gameIdCounter) THEN "Game does not exist"
    ELSE IF games[gameId].isResolved THEN "Game already resolved"
    ELSE IF ~games[gameId].resolveRequested THEN "Must request resolve first"
    ELSE IF ~checkSignaturesOk(games[gameId].encryptedPlayerMove, cleartexts,
                               decryptionProof)
      THEN "ProofVerificationFailed"
    ELSE IF ~abiDecodeOk(cleartexts) THEN "DecodeFailed"
    ELSE IF ~(abiDecodeUint8(cleartexts) >= ROCK /\ abiDecodeUint8(cleartexts) <= SCISSORS)
      THEN "Invalid player move"
    ELSE ""

\* variant: determineWinner is called with its arguments swapped
resolveGame_SwappedMoves(sender, gameId, cleartexts, decryptionProof) ==
    IF resolveGameErr(gameId, cleartexts, decryptionProof) # ""
      THEN UNCHANGED vars
    ELSE
      LET game == games[gameId]
          playerMove == abiDecodeUint8(cleartexts)
          result == determineWinner(game.opponentMove, playerMove)
      IN /\ games' = [games EXCEPT ![gameId].revealedPlayerMove = playerMove,
                                   ![gameId].result = result,
                                   ![gameId].isResolved = TRUE]
         /\ playerStats' = [playerStats EXCEPT ![game.player] = recordStats(@, result)]
         /\ playerActiveGame' = [playerActiveGame EXCEPT ![game.player] = 0]
         /\ Emit(gameId, [name |-> "GameResolved", player |-> game.player,
                          playerMove |-> playerMove,
                          opponentMove |-> game.opponentMove, result |-> result])
         /\ UNCHANGED <<gameIdCounter, fhe>>

\* variant: stats and active-game entry of the caller are updated
resolveGame_UpdatesCaller(sender, gameId, cleartexts, decryptionProof) ==
    IF resolveGameErr(gameId, cleartexts, decryptionProof) # ""
      THEN UNCHANGED vars
    ELSE
      LET game == games[gameId]
          playerMove == abiDecodeUint8(cleartexts)
          result == determineWinner(playerMove, game.opponentMove)
      IN /\ games' = [games EXCEPT ![gameId].revealedPlayerMove = playerMove,
                                   ![gameId].result = result,
                                   ![gameId].isResolved = TRUE]
         /\ playerStats' = [playerStats EXCEPT ![sender] = recordStats(@, result)]
         /\ playerActiveGame' = [playerActiveGame EXCEPT ![sender] = 0]
         /\ Emit(gameId, [name |-> "GameResolved", player |-> game.player,
                          playerMove |-> playerMove,
                          opponentMove |-> game.opponentMove, result |-> result])
         /\ UNCHANGED <<gameIdCounter, fhe>>

\* variant: the owner's active-game entry is not cleared
resolveGame_KeepsIndex(sender, gameId, cleartexts, decryptionProof) ==
    IF resolveGameErr(gameId, cleartexts, decryptionProof) # ""
      THEN UNCHANGED vars
    ELSE
      LET game == games[gameId]
          playerMove == abiDecodeUint8(cleartexts)
          result == determineWinner(playerMove, game.opponentMove)
      IN /\ games' = [games EXCEPT ![gameId].revealedPlayerMove = playerMove,
                                   ![gameId].result = result,
                                   ![gameId].isResolved = TRUE]
         /\ playerStats' = [playerStats EXCEPT ![game.player] = recordStats(@, result)]
         /\ Emit(gameId, [name |-> "GameResolved", player |-> game.player,
                          playerMove |-> playerMove,
                          opponentMove |-> game.opponentMove, result |-> result])
         /\ UNCHANGED <<gameIdCounter, playerActiveGame, fhe>>

resolveGame(sender, gameId, cleartexts, decryptionProof) ==
    IF resolveGameErr(gameId, cleartexts, decryptionProof) # ""
      THEN UNCHANGED vars
    ELSE
      LET game == games[gameId]
          playerMove == abiDecodeUint8(cleartexts)
          result == determineWinner(playerMove, game.opponentMove)
      IN /\ games' = [games EXCEPT ![gameId].revealedPlayerMove = playerMove,
                                   ![gameId].result = result,
                                   ![gameId].isResolved = TRUE]
         /\ playerStats' = [playerStats EXCEPT ![game.player] = recordStats(@, result)]
         /\ playerActiveGame' = [playerActiveGame EXCEPT ![game.player] = 0]
         /\ Emit(gameId, [name |-> "GameResolved", player |-> game.player,
                          playerMove |-> playerMove,
                          opponentMove |-> game.opponentMove, result |-> result])
         /\ UNCHANGED <<gameIdCounter, fhe>>

\* -------------------------------------------------------------- cancelGame
\* variant: cancelling requires that resolution was not requested
cancelGameErr_OnlyFromCreated(sender) ==
    IF playerActiveGame[sender] = 0 THEN "No active game to cancel"
    ELSE IF games[playerActiveGame[sender]].isResolved THEN "Game already resolved"
    ELSE IF games[playerActiveGame[sender]].resolveRequested
      THEN "Game already resolved"
    ELSE ""

\* variant: the check that the caller has an active game is missing
cancelGameErr_NoActiveCheck(sender) ==
    IF games[playerActiveGame[sender]].isResolved THEN "Game already resolved"
    ELSE ""

cancelGameErr(sender) ==
    IF playerActiveGame[sender] = 0 THEN "No active game to cancel"
    ELSE IF games[playerActiveGame[sender]].isResolved THEN "Game already resolved"
    ELSE ""

\* variant: the cancelled game is added to totalGames
cancelGame_CountsGame(sender) ==
    IF cancelGameErr(sender) # ""
      THEN UNCHANGED vars
    ELSE
      LET gameId == playerActiveGame[sender]
          game == games[gameId]
      IN /\ games' = [games EXCEPT ![gameId].isResolved = TRUE,
                                   ![gameId].result = DRAW]
         /\ playerStats' = [playerStats EXCEPT ![sender].totalGames = @ + 1]
         /\ playerActiveGame' = [playerActiveGame EXCEPT ![sender] = 0]
         /\ Emit(gameId, [name |-> "GameResolved", player |-> sender,
                          playerMove |-> 0,
                          opponentMove |-> game.opponentMove, result |-> DRAW])
         /\ UNCHANGED <<gameIdCounter, fhe>>

\* variant: the cancelled game is counted as a draw
cancelGame_CountsDraw(sender) ==
    IF cancelGameErr(sender) # ""
      THEN UNCHANGED vars
    ELSE
      LET gameId == playerActiveGame[sender]
          game == games[gameId]
      IN /\ games' = [games EXCEPT ![gameId].isResolved = TRUE,
                                   ![gameId].result = DRAW]
         /\ playerStats' = [playerStats EXCEPT ![sender] = recordStats(@, DRAW)]
         /\ playerActiveGame' = [playerActiveGame EXCEPT ![sender] = 0]
         /\ Emit(gameId, [name |-> "GameResolved", player |-> sender,
                          playerMove |-> 0,
                          opponentMove |-> game.opponentMove, result |-> DRAW])
         /\ UNCHANGED <<gameIdCounter, fhe>>

\* variant: the active-game entry is not cleared
cancelGame_KeepsIndex(sender) ==
    IF cancelGameErr(sender) # ""
      THEN UNCHANGED vars
    ELSE
      LET gameId == playerActiveGame[sender]
          game == games[gameId]
      IN /\ games' = [games EXCEPT ![gameId].isResolved = TRUE,
                                   ![gameId].result = DRAW]
         /\ Emit(gameId, [name |-> "GameResolved", player |-> sender,
                          playerMove |-> 0,
                          opponentMove |-> game.opponentMove, result |-> DRAW])
         /\ UNCHANGED <<gameIdCounter, playerActiveGame, playerStats, fhe>>

cancelGame(sender) ==
    IF cancelGameErr(sender) # ""
      THEN UNCHANGED vars
    ELSE
      LET gameId == playerActiveGame[sender]
          game == games[gameId]
      IN /\ games' = [games EXCEPT ![gameId].isResolved = TRUE,
                                   ![gameId].result = DRAW]
         /\ playerActiveGame' = [playerActiveGame EXCEPT ![sender] = 0]
         /\ Emit(gameId, [name |-> "GameResolved", player |-> sender,
                          playerMove |-> 0,
                          opponentMove |-> game.opponentMove, result |-> DRAW])
         /\ UNCHANGED <<gameIdCounter, playerStats, fhe>>

\* ---------------------------------------------------------------- the calls
PlayGameCall ==
    /\ \E sender \in Players, encryptedMove \in ExternalHandles,
          proof \in InputProofs :
           playGame(sender, encryptedMove, proof)
    /\ UNCHANGED clientVars

RequestResolveCall ==
    /\ \E sender \in Players, gameId \in CallIds :
           requestResolve(sender, gameId)
    /\ UNCHANGED clientVars

ResolveGameCall ==
    /\ \E sender \in Players, gameId \in CallIds, cleartexts \in Cleartexts,
          decryptionProof \in DecryptionProofs :
           resolveGame(sender, gameId, cleartexts, decryptionProof)
    /\ UNCHANGED clientVars

CancelGameCall ==
    /\ \E sender \in Players : cancelGame(sender)
    /\ UNCHANGED clientVars

Next ==
    \/ PlayGameCall
    \/ RequestResolveCall
    \/ ResolveGameCall
    \/ CancelGameCall

\* The ledger with its accounts calling it directly
LedgerInit == Init /\ NoClient

Spec == LedgerInit /\ [][Next]_allVars

\* ------------------------------------------------------------------- views
\* getGame: the only check is gameId < gameIdCounter; the call returns the
\* stored record without the handle
getGameErr(gameId) ==
    IF ~(gameId < gameIdCounter) THEN "Game does not exist" ELSE ""

\* variant: result and revealedPlayerMove are returned in each other's place
getGame_SwappedReturn(gameId) ==
    [player |-> games[gameId].player,
     opponentMove |-> games[gameId].opponentMove,
     createdAt |-> games[gameId].createdAt,
     isResolved |-> games[gameId].isResolved,
     result |-> games[gameId].revealedPlayerMove,
     revealedPlayerMove |-> games[gameId].result,
     resolveRequested |-> games[gameId].resolveRequested]

getGame(gameId) ==
    [player |-> games[gameId].player,
     opponentMove |-> games[gameId].opponentMove,
     createdAt |-> games[gameId].createdAt,
     isResolved |-> games[gameId].isResolved,
     result |-> games[gameId].result,
     revealedPlayerMove |-> games[gameId].revealedPlayerMove,
     resolveRequested |-> games[gameId].resolveRequested]

\* getPlayerEncryptedMove: same check as getGame; returns the stored handle
getPlayerEncryptedMoveErr(gameId) ==
    IF ~(gameId < gameIdCounter) THEN "Game does not exist" ELSE ""

getPlayerEncryptedMove(gameId) == games[gameId].encryptedPlayerMove

getPlayerStats(player) == playerStats[player]

getPlayerActiveGame(player) == playerActiveGame[player]

\* variant: the counter itself is returned
getTotalGames_OffByOne == gameIdCounter

getTotalGames == gameIdCounter - 1

\* =================================================================== claims
Created == 1..(gameIdCounter - 1)

Unresolved(p) == {g \in Created : games[g].player = p /\ ~games[g].isResolved}

EventsNamed(g, name) == {i \in 1..Len(eventLog[g]) : eventLog[g][i].name = name}

\* the GameResolved events of g that resolveGame emitted (cancelGame logs move 0)
RevealEvents(g) ==
    {i \in EventsNamed(g, "GameResolved") : eventLog[g][i].playerMove # 0}

CancelEvents(g) ==
    {i \in EventsNamed(g, "GameResolved") : eventLog[g][i].playerMove = 0}

RevealedGames(p) ==
    {g \in Created : games[g].player = p /\ games[g].isResolved
                     /\ games[g].revealedPlayerMove # 0}

\* C1: in every reachable state each player owns at most one game with
\* isResolved = false.
C1_AtMostOneUnresolvedGame ==
    \A p \in Players : Cardinality(Unresolved(p)) <= 1

\* a player who has finished one game and has a second one open
C1_Witness ==
    \E p \in Players : \E g1, g2 \in Created :
        /\ g1 # g2
        /\ games[g1].player = p /\ games[g1].isResolved
        /\ games[g2].player = p /\ ~games[g2].isResolved

\* C2: the active-game index agrees with the ledger in every state:
\* playerActiveGame[p] = g # 0 iff g was created by p and is unresolved; and
\* an entry changes only in the step that creates the game it then names
\* (from 0) or in the step in which the game it named becomes resolved (to 0).
C2_IndexAgrees ==
    \A p \in Players : \A g \in GameIds \ {0} :
        (playerActiveGame[p] = g) <=>
            (g \in Created /\ games[g].player = p /\ ~games[g].isResolved)

C2_IndexStep ==
    \A p \in Players :
        playerActiveGame'[p] # playerActiveGame[p] =>
            \/ /\ playerActiveGame[p] = 0
               /\ playerActiveGame'[p] = gameIdCounter
               /\ gameIdCounter' = gameIdCounter + 1
               /\ games'[gameIdCounter].player = p
            \/ /\ playerActiveGame'[p] = 0
               /\ ~games[playerActiveGame[p]].isResolved
               /\ games'[playerActiveGame[p]].isResolved

\* C2: the index agrees with the ledger in every state (C2_IndexAgrees) and
\* changes only in the creating or the resolving step (C2_IndexStep).
C2_ActiveIndexMatchesLedger ==
    [](C2_IndexAgrees /\ playerActiveGame \in [Players -> GameIds])
        /\ [][C2_IndexStep]_vars

\* one player's game is over and out of the index while the other player's
\* game is open and in it
C2_Witness ==
    \E p, q \in Players :
        /\ playerActiveGame[p] # 0
        /\ playerActiveGame[q] = 0
        /\ \E g \in Created : games[g].player = q /\ games[g].isResolved

\* C3: a resolveGame on a resolved game fails with "Game already resolved"
\* whatever cleartext and proof are supplied, so a game is resolved by at
\* most one resolveGame and its owner's stats count it exactly once.
C3_ResolveAtMostOnce ==
    /\ \A g \in Created : games[g].isResolved =>
           \A c \in Cleartexts, pr \in DecryptionProofs :
               resolveGameErr(g, c, pr) = "Game already resolved"
    /\ \A g \in GameIds : Cardinality(EventsNamed(g, "GameResolved")) <= 1
    /\ \A p \in Players :
           playerStats[p].totalGames = Cardinality(RevealedGames(p))

\* a game resolved by resolveGame whose (valid) proof is still at hand
C3_Witness ==
    \E g \in Created :
        /\ games[g].isResolved
        /\ RevealEvents(g) # {}
        /\ KmsProof(games[g].encryptedPlayerMove) \in DecryptionProofs
        /\ playerStats[games[g].player].totalGames = 1

\* C4: resolveGame on an existing, unresolved game whose resolveRequested
\* is false fails with "Must request resolve first" for every cleartext and
\* proof; hence every reveal of a game (a GameResolved event of resolveGame)
\* comes after a ResolveRequested event of the same game, and the game it
\* resolved has resolveRequested = true.
C4_ResolveNeedsRequest ==
    /\ \A g \in Created : (~games[g].isResolved /\ ~games[g].resolveRequested) =>
           \A c \in Cleartexts, pr \in DecryptionProofs :
               resolveGameErr(g, c, pr) = "Must request resolve first"
    /\ \A g \in GameIds : \A i \in RevealEvents(g) :
           \E j \in EventsNamed(g, "ResolveRequested") : j < i
    /\ \A g \in GameIds : games[g].revealedPlayerMove # 0 => games[g].resolveRequested

\* an unrequested open game for whose handle a valid decryption proof is already
\* in circulation (the same input was committed and revealed in an earlier game)
C4_Witness ==
    \E g1, g2 \in Created :
        /\ RevealEvents(g1) # {}
        /\ ~games[g2].isResolved /\ ~games[g2].resolveRequested
        /\ KmsProof(games[g2].encryptedPlayerMove) \in DecryptionProofs

\* C5: resolveRequested of a game never goes from true to false and is set
\* by at most one requestResolve: on an unresolved game whose resolveRequested
\* is true, requestResolve by the owner fails with "Resolve already
\* requested" (by anyone else with "Only player can request resolve"), and a
\* failed call leaves the game and the decryptability of handles unchanged.
C5_RequestedState ==
    /\ \A g \in Created : (games[g].resolveRequested /\ ~games[g].isResolved) =>
           requestResolveErr(games[g].player, g) = "Resolve already requested"
    /\ \A g \in GameIds : Cardinality(EventsNamed(g, "ResolveRequested")) <= 1
    /\ \A g \in GameIds : games[g].resolveRequested <=>
           EventsNamed(g, "ResolveRequested") # {}

C5_RequestedStep ==
    /\ \A g \in GameIds : games[g].resolveRequested => games'[g].resolveRequested
    /\ (games' # games \/ publiclyDecryptable' # publiclyDecryptable) =>
           \A s \in Players, g \in CallIds :
               ~(requestResolveErr(s, g) # "" /\ requestResolve(s, g))

\* C5: resolveRequested is set at most once and never reset; a repeated
\* requestResolve fails and changes nothing.
C5_ResolveRequestedOnce ==
    []C5_RequestedState /\ [][C5_RequestedStep]_vars

\* a requested, still unresolved game
C5_Witness ==
    \E g \in Created :
        /\ games[g].resolveRequested /\ ~games[g].isResolved
        /\ games[g].encryptedPlayerMove \in publiclyDecryptable

\* C6: requestResolve(g) by a caller other than games[g].player fails with
\* "Only player can request resolve"; resolveRequested of a game is set, and
\* a handle becomes publicly decryptable, only in a step that is a
\* successful requestResolve by the owner of a game holding that handle.
C6_NonOwnerRejected ==
    \A g \in Created : \A s \in Players :
        s # games[g].player =>
            requestResolveErr(s, g) = "Only player can request resolve"

OwnerRequests(g) ==
    /\ g \in Created
    /\ requestResolveErr(games[g].player, g) = ""
    /\ requestResolve(games[g].player, g)

C6_OwnerStep ==
    /\ \A g \in GameIds :
           (~games[g].resolveRequested /\ games'[g].resolveRequested) =>
               OwnerRequests(g)
    /\ \A h \in publiclyDecryptable' \ publiclyDecryptable :
           \E g \in Created : games[g].encryptedPlayerMove = h /\ OwnerRequests(g)

\* C6: only the owner of a game can request its resolution and thereby make
\* its handle publicly decryptable.
C6_OnlyOwnerRequests ==
    []C6_NonOwnerRejected /\ [][C6_OwnerStep]_vars

\* two open games of two players: one owner has requested resolution, the
\* other game is still confidential although the first player could call
C6_Witness ==
    \E g1, g2 \in Created :
        /\ games[g1].player # games[g2].player
        /\ games[g1].resolveRequested /\ ~games[g1].isResolved
        /\ ~games[g2].resolveRequested /\ ~games[g2].isResolved
        /\ games[g2].encryptedPlayerMove \notin publiclyDecryptable

\* C7: a successful cancelGame by p marks p's active game resolved with
\* result = DRAW, leaves revealedPlayerMove 0, clears p's active-game entry
\* and leaves every PlayerStats counter of every player unchanged, whereas a
\* resolveGame that ends in a draw adds one to the owner's totalGames and draws.
C7_CancelStep ==
    \A p \in Players :
        (cancelGameErr(p) = "" /\ cancelGame(p)) =>
            LET g == playerActiveGame[p]
            IN /\ games'[g].isResolved
               /\ games'[g].result = DRAW
               /\ games'[g].revealedPlayerMove = 0
               /\ playerActiveGame'[p] = 0
               /\ playerStats' = playerStats

C7_DrawResolveStep ==
    \A g \in Created :
        (~games[g].isResolved /\ games'[g].isResolved /\ games'[g].result = DRAW) =>
            \A s \in Players, c \in Cleartexts, pr \in DecryptionProofs :
                (resolveGameErr(g, c, pr) = "" /\ resolveGame(s, g, c, pr)) =>
                    LET o == games[g].player
                    IN /\ playerStats'[o].totalGames = playerStats[o].totalGames + 1
                       /\ playerStats'[o].draws = playerStats[o].draws + 1

\* C7: cancelGame resolves the game as a draw without touching any stats,
\* unlike a resolveGame that ends in a draw.
C7_CancelLeavesStats ==
    [][games' # games => (C7_CancelStep /\ C7_DrawResolveStep)]_vars

\* a player with one cancelled game and one game resolved as a draw: the
\* stats count one game
C7_Witness ==
    \E g1, g2 \in Created :
        /\ games[g1].player = games[g2].player
        /\ CancelEvents(g1) # {} /\ games[g1].result = DRAW
        /\ RevealEvents(g2) # {} /\ games[g2].result = DRAW
        /\ playerStats[games[g1].player].totalGames = 1
        /\ playerStats[games[g1].player].draws = 1

C8_CancelState ==
    /\ \A p \in Players : playerActiveGame[p] # 0 => cancelGameErr(p) = ""
    /\ \A g \in GameIds : CancelEvents(g) # {} =>
           (games[g].isResolved /\ games[g].revealedPlayerMove = 0)

C8_TerminalStep ==
    \A g \in Created :
        (~games[g].isResolved /\ games'[g].isResolved) =>
            \/ cancelGameErr(games[g].player) = "" /\ cancelGame(games[g].player)
            \/ \E s \in Players, c \in Cleartexts, pr \in DecryptionProofs :
                   resolveGameErr(g, c, pr) = "" /\ resolveGame(s, g, c, pr)

C9_RetryWithValidProofSucceeds ==
    \A g \in Created : (games[g].resolveRequested /\ ~games[g].isResolved) =>
        LET h == games[g].encryptedPlayerMove
        IN /\ \A c \in Cleartexts, pr \in DecryptionProofs :
                  ~checkSignaturesOk(h, c, pr) =>
                      resolveGameErr(g, c, pr) = "ProofVerificationFailed"
           /\ KmsProof(h) \in DecryptionProofs
           /\ resolveGameErr(g, h.plain, KmsProof(h)) = ""

\* C9 (amended): on a RESOLVE_REQUESTED game a pair that fails verification
\* is rejected with ProofVerificationFailed and the call changes nothing;
\* while the game stays RESOLVE_REQUESTED the valid proof is obtainable, and
\* a resolveGame with it succeeds if the committed move is in {1,2,3} and
\* fails with "Invalid player move" otherwise.
C9_RetryState ==
    \A g \in Created : (games[g].resolveRequested /\ ~games[g].isResolved) =>
        LET h == games[g].encryptedPlayerMove
        IN /\ \A c \in Cleartexts, pr \in DecryptionProofs :
                  ~checkSignaturesOk(h, c, pr) =>
                      resolveGameErr(g, c, pr) = "ProofVerificationFailed"
           /\ KmsProof(h) \in DecryptionProofs
           /\ resolveGameErr(g, h.plain, KmsProof(h)) =
                  IF h.plain \in ROCK..SCISSORS THEN "" ELSE "Invalid player move"

C9_FailedStep ==
    vars' # vars =>
        \A g \in Created : (games[g].resolveRequested /\ ~games[g].isResolved) =>
            \A s \in Players, c \in Cleartexts, pr \in DecryptionProofs :
                ~checkSignaturesOk(games[g].encryptedPlayerMove, c, pr)
                    => ~resolveGame(s, g, c, pr)

\* C9 (amended): a failed verification changes nothing, and the valid proof
\* then resolves the game exactly when the committed move is in {1,2,3}.
C9_BadProofIsRetryable ==
    []C9_RetryState /\ [][C9_FailedStep]_vars

\* a RESOLVE_REQUESTED game with a legal committed move, while a KMS proof
\* for another handle (one that fails verification for this game) circulates
C9_Witness ==
    \E g \in Created :
        /\ games[g].resolveRequested /\ ~games[g].isResolved
        /\ games[g].encryptedPlayerMove.plain \in ROCK..SCISSORS
        /\ \E h \in publiclyDecryptable : h # games[g].encryptedPlayerMove

\* C10: on the 9 pairs of {1,2,3} x {1,2,3} determineWinner returns Draw (0)
\* for equal moves, Win (1) for (1,3), (2,1), (3,2) and Loss (2) for (3,1),
\* (1,2), (2,3); every game resolved by resolveGame stores that table's entry
\* for its revealed move and its opponent move.
WinnerTable == << <<0, 2, 1>>, <<1, 0, 2>>, <<2, 1, 0>> >>

C10_WinnerTable ==
    /\ \A a, b \in ROCK..SCISSORS : determineWinner(a, b) = WinnerTable[a][b]
    /\ \A g \in Created : RevealEvents(g) # {} =>
           /\ games[g].revealedPlayerMove \in ROCK..SCISSORS
           /\ games[g].opponentMove \in ROCK..SCISSORS
           /\ games[g].result =
                  WinnerTable[games[g].revealedPlayerMove][games[g].opponentMove]

\* Rock against Scissors resolved as a win and Scissors against Rock as a loss
C10_Witness ==
    \E g1, g2 \in Created :
        /\ games[g1].revealedPlayerMove = ROCK /\ games[g1].opponentMove = SCISSORS
        /\ games[g1].isResolved /\ games[g1].result = WIN
        /\ games[g2].revealedPlayerMove = SCISSORS /\ games[g2].opponentMove = ROCK
        /\ games[g2].isResolved /\ games[g2].result = LOSS

\* C11: for every game resolved by resolveGame, the stored result and the
\* result in the GameResolved event equal determineWinner(revealedPlayerMove,
\* opponentMove) with the opponent move that was generated (and logged) at
\* creation; Rock against Scissors is a Win and Paper against Paper a Draw.
C11_ResultIsDetermineWinner ==
    \A g \in Created : RevealEvents(g) # {} =>
        LET generated == eventLog[g][2].opponentMove
            ev == eventLog[g][Len(eventLog[g])]
            r == determineWinner(games[g].revealedPlayerMove, generated)
        IN /\ eventLog[g][2].name = "OpponentMoveGenerated"
           /\ ev.name = "GameResolved"
           /\ games[g].opponentMove = generated
           /\ games[g].result = r
           /\ ev.result = r
           /\ ev.playerMove = games[g].revealedPlayerMove
           /\ ev.opponentMove = generated
           /\ (games[g].revealedPlayerMove = ROCK /\ generated = SCISSORS) => r = WIN
           /\ (games[g].revealedPlayerMove = PAPER /\ generated = PAPER) => r = DRAW

\* the two scenarios: Rock against Scissors with wins = 1, totalGames = 1 on
\* one account, Paper against Paper with draws = 1 on the other
C11_Witness ==
    \E g1, g2 \in Created :
        /\ games[g1].revealedPlayerMove = ROCK /\ games[g1].opponentMove = SCISSORS
        /\ games[g1].result = WIN
        /\ playerStats[games[g1].player].wins = 1
        /\ playerStats[games[g1].player].totalGames = 1
        /\ games[g2].revealedPlayerMove = PAPER /\ games[g2].opponentMove = PAPER
        /\ games[g2].result = DRAW
        /\ playerStats[games[g2].player].draws = 1

\* C12: each successful resolveGame adds exactly 1 to the owner's totalGames
\* and exactly 1 to the one of wins, losses, draws that the result selects;
\* the other counters and every other player's stats are unchanged.
StatsPlus(stats, result) ==
    [wins |-> stats.wins + (IF result = WIN THEN 1 ELSE 0),
     losses |-> stats.losses + (IF result = LOSS THEN 1 ELSE 0),
     draws |-> stats.draws + (IF result = DRAW THEN 1 ELSE 0),
     totalGames |-> stats.totalGames + 1]

C12_ResolveStep ==
    \A g \in Created : (~games[g].isResolved /\ games'[g].isResolved) =>
        \A s \in Players, c \in Cleartexts, pr \in DecryptionProofs :
            (resolveGameErr(g, c, pr) = "" /\ resolveGame(s, g, c, pr)) =>
                /\ games'[g].result \in {DRAW, WIN, LOSS}
                /\ playerStats' = [playerStats EXCEPT ![games[g].player] =
                                      StatsPlus(@, games'[g].result)]

C12_StatsIncrement ==
    [][games' # games => C12_ResolveStep]_vars

\* one account with a game won and a game lost
C12_Witness ==
    \E p \in Players :
        playerStats[p] = [wins |-> 1, losses |-> 1, draws |-> 0, totalGames |-> 2]

\* C13: no PlayerStats counter ever decreases, and a counter changes only in
\* a step that is a successful resolveGame: playGame, requestResolve,
\* cancelGame and failed calls leave all stats unchanged.
C13_StatsStep ==
    /\ \A p \in Players :
           /\ playerStats'[p].wins >= playerStats[p].wins
           /\ playerStats'[p].losses >= playerStats[p].losses
           /\ playerStats'[p].draws >= playerStats[p].draws
           /\ playerStats'[p].totalGames >= playerStats[p].totalGames
    /\ \E g \in Created, s \in Players, c \in Cleartexts, pr \in DecryptionProofs :
           resolveGameErr(g, c, pr) = "" /\ resolveGame(s, g, c, pr)

C13_StatsOnlyByResolve ==
    [][playerStats' # playerStats => C13_StatsStep]_vars

\* an account whose stats count one game although it also cancelled one
C13_Witness ==
    \E g1, g2 \in Created :
        /\ games[g1].player = games[g2].player
        /\ RevealEvents(g1) # {}
        /\ CancelEvents(g2) # {}
        /\ playerStats[games[g1].player].totalGames = 1

\* C14: playGame by a player whose active-game entry is non-zero fails with
\* "Player already has an active game" whatever the handle and proof, and
\* changes nothing: no record, no id consumed, the entry still points to the
\* earlier game, no event.
C14_ActiveState ==
    \A p \in Players : playerActiveGame[p] # 0 =>
        \A h \in ExternalHandles, pr \in InputProofs :
            playGameErr(p, h, pr) = "Player already has an active game"

C14_ActiveStep ==
    \A p \in Players : playerActiveGame[p] # 0 =>
        \A h \in ExternalHandles, pr \in InputProofs : ~playGame(p, h, pr)

C14_SecondPlayGameRejected ==
    []C14_ActiveState /\ [][vars' # vars => C14_ActiveStep]_vars

\* a player with an open game while the ledger still has ids to hand out
C14_Witness ==
    \E p \in Players :
        /\ playerActiveGame[p] # 0
        /\ ~games[playerActiveGame[p]].isResolved
        /\ gameIdCounter <= MaxGames

\* C15: every mutating operation is all-or-nothing: a call that meets any of
\* its failure conditions leaves the whole ledger state (games, index, stats,
\* counter, decryptability, ACL) unchanged and emits no event.
PlayGameFails(p, h, pr) ==
    playerActiveGame[p] # 0 \/ ~fromExternalOk(h, pr, p)

RequestResolveFails(p, g) ==
    \/ g >= gameIdCounter
    \/ games[g].player # p
    \/ games[g].isResolved
    \/ games[g].resolveRequested

ResolveGameFails(g, c, pr) ==
    \/ g >= gameIdCounter
    \/ games[g].isResolved
    \/ ~games[g].resolveRequested
    \/ ~checkSignaturesOk(games[g].encryptedPlayerMove, c, pr)
    \/ ~abiDecodeOk(c)
    \/ abiDecodeUint8(c) \notin ROCK..SCISSORS

CancelGameFails(p) ==
    playerActiveGame[p] = 0 \/ games[playerActiveGame[p]].isResolved

C15_FailedStep ==
    /\ \A p \in Players, h \in ExternalHandles, pr \in InputProofs :
           PlayGameFails(p, h, pr) => ~playGame(p, h, pr)
    /\ \A p \in Players, g \in GameIds :
           RequestResolveFails(p, g) => ~requestResolve(p, g)
    /\ \A p \in Players, g \in GameIds, c \in Cleartexts, pr \in DecryptionProofs :
           ResolveGameFails(g, c, pr) => ~resolveGame(p, g, c, pr)
    /\ \A p \in Players : CancelGameFails(p) => ~cancelGame(p)

C15_AllOrNothing ==
    [][vars' # vars => C15_FailedStep]_vars

\* a state with events logged in which each of the four operations has a
\* failing call
C15_Witness ==
    /\ \E g \in Created : RevealEvents(g) # {}
    /\ \E p \in Players, h \in ExternalHandles :
           playerActiveGame[p] # 0 /\ PlayGameFails(p, h, "attested")
    /\ \E p \in Players, g \in Created :
           games[g].player = p /\ games[g].resolveRequested
           /\ ~games[g].isResolved /\ RequestResolveFails(p, g)
    /\ \E g \in Created :
           games[g].resolveRequested /\ ~games[g].isResolved
           /\ ResolveGameFails(g, games[g].encryptedPlayerMove.plain, NoProof)
    /\ \E p \in Players : playerActiveGame[p] = 0 /\ CancelGameFails(p)

\* C16: game ids are unique, strictly increasing and never reused: the k-th
\* successful playGame gets id k (ids start at 1), gameIdCounter never
\* decreases, and getTotalGames equals the number of successful playGame
\* calls so far, whether the games are unresolved, resolved or cancelled.
C16_IdsState ==
    /\ gameIdCounter >= 1
    /\ \A g \in GameIds :
           Cardinality(EventsNamed(g, "GameCreated")) = (IF g \in Created THEN 1 ELSE 0)
    /\ getTotalGames = Cardinality({g \in GameIds : EventsNamed(g, "GameCreated") # {}})
    /\ \A g \in Created : games[g].player # ZeroAddress
    /\ \A g1, g2 \in Created : g1 < g2 => games[g1].createdAt <= games[g2].createdAt

C16_IdsStep ==
    /\ gameIdCounter' >= gameIdCounter
    /\ \A g \in GameIds :
           Len(eventLog'[g]) > 0 /\ Len(eventLog[g]) = 0 =>
               /\ g = getTotalGames + 1
               /\ gameIdCounter' = g + 1
               /\ eventLog'[g][1].name = "GameCreated"

C16_IdsSequential ==
    []C16_IdsState /\ [][C16_IdsStep]_vars

\* two games issued, the first cancelled, the second still open
C16_Witness ==
    /\ getTotalGames = 2
    /\ CancelEvents(1) # {}
    /\ ~games[2].isResolved

\* C17: getGame, requestResolve and resolveGame fail with "Game does not
\* exist" for every gameId that no playGame has returned, id 0 included.
C17_UnissuedIdIsNotFound ==
    \A g \in CallIds : g \notin Created =>
        /\ getGameErr(g) = "Game does not exist"
        /\ \A p \in Players : requestResolveErr(p, g) = "Game does not exist"
        /\ \A c \in Cleartexts, pr \in DecryptionProofs :
               resolveGameErr(g, c, pr) = "Game does not exist"

\* C18: for every created game opponentMove is in {1,2,3} whatever the
\* generator's inputs; opponentMove and player never change after creation;
\* the stored handle is the one stored at creation (makePubliclyDecryptable
\* returns the handle it is given), and while the game is unresolved the only
\* change to it (its elevation to publicly decryptable, never undone) is made
\* by the successful requestResolve of that game.
C18_CreationState ==
    /\ \A random \in 0..Uint8Range : generateRandomMove(random) \in ROCK..SCISSORS
    /\ \A g \in Created :
           /\ games[g].opponentMove \in ROCK..SCISSORS
           /\ games[g].opponentMove = eventLog[g][2].opponentMove
           /\ games[g].player = eventLog[g][1].player
           /\ games[g].encryptedPlayerMove = eventLog[g][1].handle

C18_CreationStep ==
    \A g \in Created :
        /\ games'[g].opponentMove = games[g].opponentMove
        /\ games'[g].player = games[g].player
        /\ games'[g].encryptedPlayerMove = games[g].encryptedPlayerMove
        /\ games[g].encryptedPlayerMove \in publiclyDecryptable =>
               games[g].encryptedPlayerMove \in publiclyDecryptable'
        /\ (~games[g].isResolved
            /\ games[g].encryptedPlayerMove \notin publiclyDecryptable
            /\ games[g].encryptedPlayerMove \in publiclyDecryptable') =>
               OwnerRequests(g)

C18_WriteOnceFields ==
    []C18_CreationState /\ [][C18_CreationStep]_vars

\* a game against Scissors that went through requestResolve and resolveGame
C18_Witness ==
    \E g \in Created :
        /\ games[g].opponentMove = SCISSORS
        /\ games[g].resolveRequested
        /\ games[g].encryptedPlayerMove \in publiclyDecryptable
        /\ RevealEvents(g) # {}

\* C19: isResolved of a game goes from false to true at most once and never
\* back; once it is true no step changes the game's stored record (result,
\* revealedPlayerMove, opponentMove, resolveRequested, handle) and no
\* further event of that game is emitted.
C19_ResolvedStep ==
    \A g \in GameIds : games[g].isResolved =>
        /\ games'[g] = games[g]
        /\ eventLog'[g] = eventLog[g]

C19_ResolvedIsFrozen ==
    [][games' # games \/ eventLog' # eventLog => C19_ResolvedStep]_vars

\* a game cancelled before any request, next to a game resolved by a reveal
C19_Witness ==
    \E g1, g2 \in Created :
        /\ games[g1].isResolved /\ ~games[g1].resolveRequested
        /\ games[g2].isResolved /\ games[g2].revealedPlayerMove # 0

\* C21: a move is revealed only with a valid decryption proof: a set
\* (non-zero) revealedPlayerMove equals the plaintext committed under the
\* game's handle at creation, and for an unresolved game every resolveGame
\* call whose cleartexts differ from the committed value fails, whatever
\* proof it carries, so it sets neither revealedPlayerMove nor result.
C21_RevealIsCommittedMove ==
    \A g \in Created :
        /\ games[g].revealedPlayerMove # 0 =>
               /\ games[g].revealedPlayerMove = eventLog[g][1].handle.plain
               /\ games[g].revealedPlayerMove = games[g].encryptedPlayerMove.plain
        /\ ~games[g].isResolved =>
               \A c \in Cleartexts, pr \in DecryptionProofs :
                   c # games[g].encryptedPlayerMove.plain =>
                       resolveGameErr(g, c, pr) # ""
        /\ (~games[g].isResolved \/ CancelEvents(g) # {}) =>
               games[g].revealedPlayerMove = 0 /\ games[g].result = DRAW

\* a revealed game while a KMS proof for a different legal move circulates
C21_Witness ==
    \E g \in Created :
        /\ games[g].revealedPlayerMove # 0
        /\ \E h \in publiclyDecryptable :
               h.plain \in ROCK..SCISSORS /\ h.plain # games[g].revealedPlayerMove

\* C22: when the verified cleartext decodes to a value outside {1,2,3},
\* resolveGame fails with "Invalid player move" and nothing is coerced: the
\* game stays unresolved with revealedPlayerMove unset; hence every set
\* revealedPlayerMove is in {1,2,3}.
C22_InvalidMoveRejected ==
    \A g \in Created :
        /\ games[g].revealedPlayerMove \in {0} \cup (ROCK..SCISSORS)
        /\ RevealEvents(g) # {} => games[g].revealedPlayerMove \in ROCK..SCISSORS
        /\ (/\ games[g].resolveRequested
            /\ ~games[g].isResolved
            /\ games[g].encryptedPlayerMove.plain \notin ROCK..SCISSORS) =>
               LET h == games[g].encryptedPlayerMove
               IN /\ KmsProof(h) \in DecryptionProofs
                  /\ resolveGameErr(g, h.plain, KmsProof(h)) = "Invalid player move"
                  /\ games[g].revealedPlayerMove = 0

\* a RESOLVE_REQUESTED game committed to 4 next to a game of the other
\* player that was revealed
C22_Witness ==
    \E g1, g2 \in Created :
        /\ games[g1].resolveRequested /\ ~games[g1].isResolved
        /\ games[g1].encryptedPlayerMove.plain = MaxPlain
        /\ RevealEvents(g2) # {}

\* C23: cancelGame by p fails with "No active game to cancel" exactly when
\* p's active-game entry is 0; whenever the entry is non-zero the game it
\* names is unresolved, so cancelGame never fails with "Game already
\* resolved".
C23_CancelErrors ==
    \A p \in Players :
        /\ (cancelGameErr(p) = "No active game to cancel") <=> (playerActiveGame[p] = 0)
        /\ playerActiveGame[p] # 0 => ~games[playerActiveGame[p]].isResolved
        /\ cancelGameErr(p) # "Game already resolved"
        /\ playerActiveGame[p] # 0 => cancelGameErr(p) = ""

\* a player whose first game is resolved and whose entry names a second game
C23_Witness ==
    \E p \in Players :
        /\ playerActiveGame[p] = 2
        /\ games[1].player = p /\ games[1].isResolved

\* C24 (as stated): playGame by p succeeds if and only if p's active-game
\* entry is 0, whatever handle and input proof the call carries.
C24_PlayGameIffNoActiveGame ==
    \A p \in Players, h \in ExternalHandles, pr \in InputProofs :
        (playGameErr(p, h, pr) = "") <=> (playerActiveGame[p] = 0)

\* C24 (amended): a playGame by p whose input proof FHE.fromExternal accepts
\* succeeds if and only if p's active-game entry is 0, and one whose input
\* proof is rejected fails whatever the entry; the step that resolves or
\* cancels p's game clears the entry, so such a playGame succeeds right
\* after it; the new game gets an id greater than every id issued before and
\* no earlier game record or event log is changed by it.
C24_PlayState ==
    \A p \in Players, h \in ExternalHandles, pr \in InputProofs :
        /\ fromExternalOk(h, pr, p) =>
               ((playGameErr(p, h, pr) = "") <=> (playerActiveGame[p] = 0))
        /\ ~fromExternalOk(h, pr, p) => playGameErr(p, h, pr) # ""

C24_PlayStep ==
    /\ \A g \in Created : (~games[g].isResolved /\ games'[g].isResolved) =>
           playerActiveGame'[games[g].player] = 0
    /\ gameIdCounter' # gameIdCounter =>
           /\ \A g \in Created : g < gameIdCounter
           /\ games'[gameIdCounter].player \in Players
           /\ playerActiveGame[games'[gameIdCounter].player] = 0
           /\ playerActiveGame'[games'[gameIdCounter].player] = gameIdCounter
           /\ \A g \in Created : games'[g] = games[g] /\ eventLog'[g] = eventLog[g]

C24_PlayAgainAfterTerminal ==
    []C24_PlayState /\ [][C24_PlayStep]_vars

\* a player who created a second game after the first was revealed, the
\* other player's input being still acceptable
C24_Witness ==
    \E p \in Players :
        /\ games[1].player = p /\ RevealEvents(1) # {}
        /\ games[2].player = p /\ playerActiveGame[p] = 2
        /\ \E q \in Players \ {p}, h \in ExternalHandles :
               playGameErr(q, h, "attested") = ""

\* The field of the Game record that holds each value an event carries
ViewField ==
    [player |-> "player", handle |-> "encryptedPlayerMove",
     opponentMove |-> "opponentMove", playerMove |-> "revealedPlayerMove",
     result |-> "result"]

RecoverableFrom(view, event) ==
    \A f \in DOMAIN event \ {"name"} :
        ViewField[f] \in DOMAIN view /\ view[ViewField[f]] = event[f]

\* C25 (as stated): every value carried by an event of game g can be read
\* back from what getGame(g) returns.
C25_EventsRecoverableFromGetGame ==
    \A g \in Created :
        /\ getGameErr(g) = ""
        /\ \A i \in 1..Len(eventLog[g]) : RecoverableFrom(getGame(g), eventLog[g][i])

\* C25 (amended): every value carried by an event of game g can be read back
\* afterwards from getGame(g) (player, opponent move, revealed move, result)
\* together with getPlayerEncryptedMove(g) (the handle, which getGame does
\* not return); while the game is active its id is getPlayerActiveGame of
\* its owner.
FullView(g) ==
    [f \in DOMAIN getGame(g) \cup {"encryptedPlayerMove"} |->
        IF f = "encryptedPlayerMove" THEN getPlayerEncryptedMove(g) ELSE getGame(g)[f]]

C25_EventsRecoverableFromViews ==
    \A g \in Created :
        /\ getGameErr(g) = "" /\ getPlayerEncryptedMoveErr(g) = ""
        /\ "encryptedPlayerMove" \notin DOMAIN getGame(g)
        /\ \A i \in 1..Len(eventLog[g]) : RecoverableFrom(FullView(g), eventLog[g][i])
        /\ ~games[g].isResolved => getPlayerActiveGame(games[g].player) = g

\* a revealed game with its four events next to a requested, open game
C25_Witness ==
    \E g1, g2 \in Created :
        /\ Len(eventLog[g1]) = 4 /\ games[g1].revealedPlayerMove # games[g1].result
        /\ RevealEvents(g1) # {}
        /\ Len(eventLog[g2]) = 3 /\ ~games[g2].isResolved

\* C26: operations execute one after the other, so of two terminal
\* operations submitted for the same open game (two resolveGame calls, or a
\* resolveGame and the owner's cancelGame) exactly one succeeds: in the state
\* right after the one that succeeded every resolveGame on that game and the
\* owner's cancelGame fail, and the stats count only the one that succeeded;
\* of two playGame calls by the same player exactly one creates a game.
C26_TerminalStep ==
    \A g \in Created : (~games[g].isResolved /\ games'[g].isResolved) =>
        /\ \A c \in Cleartexts, pr \in DecryptionProofs' :
               resolveGameErr(g, c, pr)' = "Game already resolved"
        /\ cancelGameErr(games[g].player)' = "No active game to cancel"
        /\ Len(eventLog'[g]) = Len(eventLog[g]) + 1
        /\ playerStats' = IF games'[g].revealedPlayerMove # 0
                            THEN [playerStats EXCEPT ![games[g].player] =
                                     StatsPlus(@, games'[g].result)]
                            ELSE playerStats

C26_CreateStep ==
    gameIdCounter' # gameIdCounter =>
        /\ gameIdCounter' = gameIdCounter + 1
        /\ \A p \in Players : games'[gameIdCounter].player = p =>
               \A h \in ExternalHandles, pr \in InputProofs :
                   playGameErr(p, h, pr)' = "Player already has an active game"

C26_StatsCountReveals ==
    \A p \in Players :
        /\ playerStats[p].totalGames = Cardinality(RevealedGames(p))
        /\ \A g \in Created : Cardinality(EventsNamed(g, "GameResolved")) <= 1

C26_ExactlyOneSucceeds ==
    /\ []C26_StatsCountReveals
    /\ [][games' # games => C26_TerminalStep /\ C26_CreateStep]_vars

\* a requested, open game for which both a resolveGame with its valid proof
\* and the owner's cancelGame would succeed, after an earlier game was
\* settled by one of two such calls
C26_Witness ==
    \E g \in Created :
        /\ games[g].resolveRequested /\ ~games[g].isResolved
        /\ resolveGameErr(g, games[g].encryptedPlayerMove.plain,
                          KmsProof(games[g].encryptedPlayerMove)) = ""
        /\ cancelGameErr(games[g].player) = ""
        /\ \E g0 \in Created : games[g0].isResolved /\ games[g0].resolveRequested

\* C27: a successful requestResolve(g) changes only game g's
\* resolveRequested (to true) and the decryptability of g's handle (and logs
\* its event): the other fields of g, every other game, the active-game
\* index, all PlayerStats, gameIdCounter and the ACL are unchanged.
C27_RequestStep ==
    \A g \in GameIds : (~games[g].resolveRequested /\ games'[g].resolveRequested) =>
        /\ OwnerRequests(g)
        /\ games' = [games EXCEPT ![g].resolveRequested = TRUE]
        /\ publiclyDecryptable' = publiclyDecryptable \cup {games[g].encryptedPlayerMove}
        /\ UNCHANGED <<gameIdCounter, playerActiveGame, playerStats, aclAllowed>>
        /\ \A g2 \in GameIds \ {g} : eventLog'[g2] = eventLog[g2]
        /\ eventLog'[g] = Append(eventLog[g], [name |-> "ResolveRequested",
                                               handle |-> games[g].encryptedPlayerMove])

C27_RequestResolveFrame ==
    [][games' # games => C27_RequestStep]_vars

\* a requested game that is still its owner's active game, while the other
\* player has stats and an open game of their own
C27_Witness ==
    \E g \in Created, q \in Players :
        /\ games[g].resolveRequested /\ ~games[g].isResolved
        /\ playerActiveGame[games[g].player] = g
        /\ q # games[g].player
        /\ playerStats[q].totalGames = 1

\* C28: failure kinds are checked in a fixed order. requestResolve: not
\* found, not owner, already resolved, already requested. resolveGame: not
\* found, already resolved, not requested, proof verification failed,
\* invalid move. The error a call returns is the first in that order whose
\* condition holds.
RequestResolveOrder ==
    << "Game does not exist", "Only player can request resolve",
       "Game already resolved", "Resolve already requested" >>

ResolveGameOrder ==
    << "Game does not exist", "Game already resolved",
       "Must request resolve first", "ProofVerificationFailed",
       "Invalid player move" >>

RequestResolveFailures(p, g) ==
    IF g >= gameIdCounter THEN {"Game does not exist"}
    ELSE {e \in {"Only player can request resolve"} : games[g].player # p}
         \cup {e \in {"Game already resolved"} : games[g].isResolved}
         \cup {e \in {"Resolve already requested"} : games[g].resolveRequested}

ResolveGameFailures(g, c, pr) ==
    IF g >= gameIdCounter THEN {"Game does not exist"}
    ELSE {e \in {"Game already resolved"} : games[g].isResolved}
         \cup {e \in {"Must request resolve first"} : ~games[g].resolveRequested}
         \cup {e \in {"ProofVerificationFailed"} :
                  ~checkSignaturesOk(games[g].encryptedPlayerMove, c, pr)}
         \cup {e \in {"Invalid player move"} : (c % Uint8Range) \notin ROCK..SCISSORS}

FirstOf(order, failures) ==
    IF failures = {} THEN ""
    ELSE order[CHOOSE i \in 1..Len(order) :
                   /\ order[i] \in failures
                   /\ \A j \in 1..(i - 1) : order[j] \notin failures]

C28_ErrorOrder ==
    /\ \A p \in Players, g \in CallIds :
           requestResolveErr(p, g) = FirstOf(RequestResolveOrder, RequestResolveFailures(p, g))
    /\ \A g \in CallIds, c \in Cleartexts, pr \in DecryptionProofs :
           resolveGameErr(g, c, pr) = FirstOf(ResolveGameOrder, ResolveGameFailures(g, c, pr))
    /\ \A g \in Created, p \in Players :
           (games[g].isResolved /\ games[g].player # p) =>
               requestResolveErr(p, g) = "Only player can request resolve"
    /\ \A g \in Created, c \in Cleartexts, pr \in DecryptionProofs :
           (CancelEvents(g) # {} /\ ~games[g].resolveRequested) =>
               resolveGameErr(g, c, pr) = "Game already resolved"

\* a cancelled, never requested game whose handle is publicly decryptable
\* through a later game: a valid proof for it meets two failure conditions
C28_Witness ==
    \E g \in Created :
        /\ CancelEvents(g) # {} /\ ~games[g].resolveRequested
        /\ games[g].encryptedPlayerMove \in publiclyDecryptable
        /\ games[g].encryptedPlayerMove.plain \in ROCK..SCISSORS

\* C29 (as stated): for a requested, open game, a resolveGame carrying a
\* pair (cleartexts, proof) that passes verification succeeds for any caller.
C29_ValidProofSucceedsForAnyCaller ==
    \A g \in Created, c \in Cleartexts, pr \in DecryptionProofs :
        (/\ games[g].resolveRequested /\ ~games[g].isResolved
         /\ checkSignaturesOk(games[g].encryptedPlayerMove, c, pr)) =>
            \A s \in Players : ENABLED (resolveGame(s, g, c, pr) /\ games'[g].isResolved)

\* C29 (amended): resolveGame has no caller restriction: for a requested,
\* open game whose committed move is in {1,2,3} and its valid proof it
\* succeeds whoever calls (for a committed move outside {1,2,3} it fails
\* with "Invalid player move" whoever calls); a successful resolveGame
\* updates the stats and clears the active-game entry of the game's owner
\* and leaves stats and entry of every other player, the caller included,
\* as they were.
C29_AnyCallerState ==
    /\ \A g \in Created :
        (/\ games[g].resolveRequested /\ ~games[g].isResolved
         /\ games[g].encryptedPlayerMove.plain \in ROCK..SCISSORS) =>
            /\ KmsProof(games[g].encryptedPlayerMove) \in DecryptionProofs
            /\ resolveGameErr(g, games[g].encryptedPlayerMove.plain,
                              KmsProof(games[g].encryptedPlayerMove)) = ""
            /\ \A s \in Players :
                   ENABLED (resolveGame(s, g, games[g].encryptedPlayerMove.plain,
                                        KmsProof(games[g].encryptedPlayerMove))
                            /\ games'[g].isResolved)
    /\ \A g \in Created :
        (/\ games[g].resolveRequested /\ ~games[g].isResolved
         /\ games[g].encryptedPlayerMove.plain \notin ROCK..SCISSORS) =>
            \A c \in Cleartexts, pr \in DecryptionProofs :
                checkSignaturesOk(games[g].encryptedPlayerMove, c, pr) =>
                    resolveGameErr(g, c, pr) = "Invalid player move"

C29_OwnerStep ==
    \A g \in Created : (~games[g].isResolved /\ games'[g].revealedPlayerMove # 0) =>
        LET owner == games[g].player
        IN /\ playerActiveGame'[owner] = 0
           /\ playerStats'[owner].totalGames = playerStats[owner].totalGames + 1
           /\ \A q \in Players \ {owner} :
                  /\ playerStats'[q] = playerStats[q]
                  /\ playerActiveGame'[q] = playerActiveGame[q]

C29_ResolveByAnyCaller ==
    []C29_AnyCallerState /\ [][games' # games => C29_OwnerStep]_vars

\* a revealed game while the other player, a possible caller, still has an
\* open game and no stats
C29_Witness ==
    \E g \in Created, q \in Players :
        /\ RevealEvents(g) # {}
        /\ q # games[g].player
        /\ playerActiveGame[q] # 0 /\ ~games[playerActiveGame[q]].isResolved
        /\ playerStats[q].totalGames = 0
        /\ playerStats[games[g].player].totalGames = 1

\* C30: in every reachable state and for every player p,
\* wins[p] + losses[p] + draws[p] = totalGames[p].
C30_StatsSum ==
    \A p \in Players :
        getPlayerStats(p).wins + getPlayerStats(p).losses + getPlayerStats(p).draws
            = getPlayerStats(p).totalGames

\* a player with one win and one draw
C30_Witness ==
    \E p \in Players :
        playerStats[p] = [wins |-> 1, losses |-> 0, draws |-> 1, totalGames |-> 2]

\* C31: for every player p, totalGames[p] is the number of p's games that
\* resolveGame resolved (isResolved with revealedPlayerMove in {1,2,3}), and
\* wins, losses, draws of p are the numbers of those games whose result is
\* Win, Loss, Draw; cancelled games (result Draw, revealedPlayerMove 0) are
\* counted by getTotalGames and by no player's stats.
RevealedWith(p, result) == {g \in RevealedGames(p) : games[g].result = result}

CancelledGames == {g \in Created : games[g].isResolved /\ games[g].revealedPlayerMove = 0}

C31_StatsCountRevealedGames ==
    /\ \A p \in Players :
           /\ \A g \in RevealedGames(p) : games[g].revealedPlayerMove \in ROCK..SCISSORS
           /\ getPlayerStats(p).totalGames = Cardinality(RevealedGames(p))
           /\ getPlayerStats(p).wins = Cardinality(RevealedWith(p, WIN))
           /\ getPlayerStats(p).losses = Cardinality(RevealedWith(p, LOSS))
           /\ getPlayerStats(p).draws = Cardinality(RevealedWith(p, DRAW))
    /\ \A g \in CancelledGames : games[g].result = DRAW /\ CancelEvents(g) # {}
    /\ CancelledGames \subseteq 1..getTotalGames
    /\ getTotalGames = Cardinality(CancelledGames)
           + Cardinality(UNION {RevealedGames(p) : p \in Players})
           + Cardinality({g \in Created : ~games[g].isResolved})

\* two games issued: one cancelled, one lost by the same player
C31_Witness ==
    \E p \in Players :
        /\ getTotalGames = 2
        /\ Cardinality(CancelledGames) = 1
        /\ Cardinality(RevealedWith(p, LOSS)) = 1
        /\ \A g \in CancelledGames : games[g].player = p

\* C32: determineWinner is only ever invoked with both arguments in
\* {1,2,3}: every resolveGame call that gets as far as the invocation has a
\* decoded move in range and a stored opponentMove in range, so the final
\* "return DRAW" is not reached; on arguments in {1,2,3} it is unreachable.
C32_NoFallthrough ==
    /\ \A a \in ROCK..SCISSORS, b \in ROCK..SCISSORS : ~determineWinnerFallsThrough(a, b)
    /\ \A g \in Created, c \in Cleartexts, pr \in DecryptionProofs :
           resolveGameErr(g, c, pr) = "" =>
               /\ abiDecodeUint8(c) \in ROCK..SCISSORS
               /\ games[g].opponentMove \in ROCK..SCISSORS
               /\ ~determineWinnerFallsThrough(abiDecodeUint8(c), games[g].opponentMove)
    /\ \A g \in Created : RevealEvents(g) # {} =>
           ~determineWinnerFallsThrough(games[g].revealedPlayerMove, games[g].opponentMove)

\* a game about to be resolved with unequal moves, after a game that
\* resolveGame already decided
C32_Witness ==
    \E g \in Created, g0 \in Created :
        /\ resolveGameErr(g, games[g].encryptedPlayerMove.plain,
                          KmsProof(games[g].encryptedPlayerMove)) = ""
        /\ games[g].encryptedPlayerMove.plain # games[g].opponentMove
        /\ RevealEvents(g0) # {} /\ games[g0].result # DRAW

\* C33: playGame does not check the range of the committed plaintext, so a
\* game can have a committed move outside {1,2,3}; no resolveGame call on
\* such a game ever succeeds, it is never revealed and its steps change no
\* stats; once it is RESOLVE_REQUESTED the valid proof yields "Invalid player
\* move" and every other pair yields ProofVerificationFailed.
OutOfRangeGames ==
    {g \in Created : games[g].encryptedPlayerMove.plain \notin ROCK..SCISSORS}

C33_OutOfRangeState ==
    /\ \A p \in Players, h \in ExternalHandles :
           (h.user = p /\ playerActiveGame[p] = 0) => playGameErr(p, h, "attested") = ""
    /\ \A g \in OutOfRangeGames :
           /\ games[g].revealedPlayerMove = 0 /\ RevealEvents(g) = {}
           /\ \A c \in Cleartexts, pr \in DecryptionProofs :
                  /\ resolveGameErr(g, c, pr) # ""
                  /\ (games[g].resolveRequested /\ ~games[g].isResolved) =>
                         resolveGameErr(g, c, pr) =
                             IF checkSignaturesOk(games[g].encryptedPlayerMove, c, pr)
                               THEN "Invalid player move"
                               ELSE "ProofVerificationFailed"

C33_OutOfRangeStep ==
    \A g \in OutOfRangeGames :
        (games'[g] # games[g] \/ eventLog'[g] # eventLog[g]) =>
            playerStats' = playerStats

C33_OutOfRangeNeverResolved ==
    []C33_OutOfRangeState /\ [][C33_OutOfRangeStep]_vars

\* a RESOLVE_REQUESTED game committed to 0 whose valid proof is obtainable
C33_Witness ==
    \E g \in OutOfRangeGames :
        /\ games[g].encryptedPlayerMove.plain = 0
        /\ games[g].resolveRequested /\ ~games[g].isResolved
        /\ KmsProof(games[g].encryptedPlayerMove) \in DecryptionProofs

\* ======================================================================
\* The client's codes (src/frontend/types.ts, src/frontend/config.ts) and
\* converters (src/frontend/App.tsx).  A call that throws returns
\* [threw |-> TRUE]; a call that returns v returns [threw |-> FALSE, value |-> v].
\* ======================================================================
MaxCode == 7        \* numbers handed to the converters range over 0..MaxCode

Move == [ROCK |-> "ROCK", PAPER |-> "PAPER", SCISSORS |-> "SCISSORS"]
GameResult == [WIN |-> "WIN", LOSS |-> "LOSS", DRAW |-> "DRAW"]
MOVE == [ROCK |-> 1, PAPER |-> 2, SCISSORS |-> 3]
RESULT == [DRAW |-> 0, WIN |-> 1, LOSS |-> 2]

Moves == {Move.ROCK, Move.PAPER, Move.SCISSORS}
Codes == 0..MaxCode

Threw(message) == [threw |-> TRUE, value |-> message]
Returned(v) == [threw |-> FALSE, value |-> v]

moveNumToEnum_ZeroIsRock(num) ==
    IF num = MOVE.ROCK \/ num = 0 THEN Returned(Move.ROCK)
    ELSE IF num = MOVE.PAPER THEN Returned(Move.PAPER)
    ELSE IF num = MOVE.SCISSORS THEN Returned(Move.SCISSORS)
    ELSE Threw("Invalid move")

moveNumToEnum(num) ==
    IF num = MOVE.ROCK THEN Returned(Move.ROCK)
    ELSE IF num = MOVE.PAPER THEN Returned(Move.PAPER)
    ELSE IF num = MOVE.SCISSORS THEN Returned(Move.SCISSORS)
    ELSE Threw("Invalid move")

moveEnumToNum(move) ==
    IF move = Move.ROCK THEN Returned(MOVE.ROCK)
    ELSE IF move = Move.PAPER THEN Returned(MOVE.PAPER)
    ELSE IF move = Move.SCISSORS THEN Returned(MOVE.SCISSORS)
    ELSE Threw("Invalid move")

resultNumToEnum(num) ==
    IF num = RESULT.WIN THEN Returned(GameResult.WIN)
    ELSE IF num = RESULT.LOSS THEN Returned(GameResult.LOSS)
    ELSE IF num = RESULT.DRAW THEN Returned(GameResult.DRAW)
    ELSE Threw("Invalid result")

\* One call of a converter on a drawn argument; the fourth call composes
\* moveEnumToNum with moveNumToEnum (a throw of the inner call propagates).
ConvInit ==
    /\ Init /\ NoPage /\ NoSdk
    /\ \E num \in Codes, move \in Moves :
           io = [fn |-> "none", num |-> num, move |-> move, out |-> Returned(0)]

CallMoveNumToEnum ==
    /\ io.fn = "none"
    /\ io' = [io EXCEPT !.fn = "moveNumToEnum", !.out = moveNumToEnum(io.num)]
    /\ UNCHANGED <<vars, app, running, sdk>>

CallMoveEnumToNum ==
    /\ io.fn = "none"
    /\ io' = [io EXCEPT !.fn = "moveEnumToNum", !.out = moveEnumToNum(io.move)]
    /\ UNCHANGED <<vars, app, running, sdk>>

CallResultNumToEnum ==
    /\ io.fn = "none"
    /\ io' = [io EXCEPT !.fn = "resultNumToEnum",
                        !.out = resultNumToEnum(io.num)]
    /\ UNCHANGED <<vars, app, running, sdk>>

CallMoveRoundTrip ==
    /\ io.fn = "none"
    /\ io' = [io EXCEPT !.fn = "moveRoundTrip",
                        !.out = IF moveEnumToNum(io.move).threw
                                  THEN moveEnumToNum(io.move)
                                  ELSE moveNumToEnum(moveEnumToNum(io.move).value)]
    /\ UNCHANGED <<vars, app, running, sdk>>

ConvNext ==
    \/ CallMoveNumToEnum
    \/ CallMoveEnumToNum
    \/ CallResultNumToEnum
    \/ CallMoveRoundTrip

ConvSpec == ConvInit /\ [][ConvNext]_allVars

\* the outcome name the ledger gives a result code (part_003 L20-22)
LedgerResultName(code) ==
    IF code = DRAW THEN "DRAW" ELSE IF code = WIN THEN "WIN" ELSE "LOSS"

\* the move name the ledger gives a move code (part_003 L15-17)
LedgerMoveName(code) ==
    IF code = ROCK THEN "ROCK" ELSE IF code = PAPER THEN "PAPER" ELSE "SCISSORS"

\* C39: the client's codes match the ledger's: moveNumToEnum(moveEnumToNum(m))
\* = m for every Move, moveEnumToNum maps ROCK/PAPER/SCISSORS to the ledger's
\* 1/2/3, resultNumToEnum maps the ledger's DRAW/WIN/LOSS codes 0/1/2 to the
\* same outcomes, and a number outside these ranges makes the converter
\* throw instead of returning a move or a result.
C39_CodesMatchLedger ==
    /\ io.fn = "moveRoundTrip" => io.out = Returned(io.move)
    /\ io.fn = "moveEnumToNum" =>
           /\ ~io.out.threw
           /\ io.out.value \in ROCK..SCISSORS
           /\ LedgerMoveName(io.out.value) = io.move
    /\ io.fn = "moveNumToEnum" =>
           IF io.num \in {ROCK, PAPER, SCISSORS}
             THEN io.out = Returned(LedgerMoveName(io.num))
             ELSE io.out.threw
    /\ io.fn = "resultNumToEnum" =>
           IF io.num \in {DRAW, WIN, LOSS}
             THEN io.out = Returned(LedgerResultName(io.num))
             ELSE io.out.threw

\* move code 0 (the code of a cancellation notification) was handed to
\* moveNumToEnum and the call has returned or thrown
C39_Witness == io.fn = "moveNumToEnum" /\ io.num = 0 /\ io.out.threw

\* ======================================================================
\* publicDecrypt (src/unnamed/part_002).  A JavaScript value is a record of
\* its type t, its numeric content n and its text s.
\* ======================================================================
MaxHandles == 2     \* publicDecrypt is handed at most this many handles

Undefined == [t |-> "undefined", n |-> 0, s |-> ""]
Null == [t |-> "null", n |-> 0, s |-> ""]
NaN == [t |-> "number", n |-> 0, s |-> "NaN"]
JsNumber(n) == [t |-> "number", n |-> n, s |-> ""]
JsBigInt(n) == [t |-> "bigint", n |-> n, s |-> ""]
JsBoolean(b) == [t |-> "boolean", n |-> IF b THEN 1 ELSE 0, s |-> ""]
JsString(s) == [t |-> "string", n |-> 0, s |-> s]

\* StringToNumber of the strings of the model: the empty string is 0, a
\* decimal literal is its value, any other text is NaN
StringToNumber(s) ==
    IF s = "" THEN JsNumber(0)
    ELSE IF s = "2" THEN JsNumber(2)
    ELSE NaN

\* Number(value): the ToNumber conversion
Number_BooleanIsNaN(v) ==
    IF v.t = "bigint" THEN JsNumber(v.n)
    ELSE IF v.t = "number" THEN v
    ELSE IF v.t = "boolean" THEN NaN
    ELSE IF v.t = "string" THEN StringToNumber(v.s)
    ELSE IF v.t = "null" THEN JsNumber(0)
    ELSE NaN

Number(v) ==
    IF v.t = "bigint" THEN JsNumber(v.n)
    ELSE IF v.t = "number" THEN v
    ELSE IF v.t = "boolean" THEN JsNumber(v.n)
    ELSE IF v.t = "string" THEN StringToNumber(v.s)
    ELSE IF v.t = "null" THEN JsNumber(0)
    ELSE NaN

isNaN(v) == Number(v).s = "NaN"

\* what instance.publicDecrypt may hand back for a handle (an absent key
\* reads as undefined)
ClearValues ==
    {Undefined, Null, NaN, JsBigInt(2), JsBigInt(Uint8Range), JsNumber(3),
     JsBoolean(TRUE), JsString(""), JsString("2"), JsString("rock")}

HandleNames == {"0xaa", "0xbb"}

HandleLists == UNION {[1..k -> HandleNames] : k \in 0..MaxHandles}

\* the word the SDK's ABI encoding holds for a value it decrypted
SdkWord(v) == v.n

\* the results of instance.publicDecrypt(handles): clearValues may be
\* missing, abiEncodedClearValues is the encoding of the values of the
\* requested handles and is present only when the SDK decrypted each of
\* them to a bigint or a boolean, decryptionProof may be missing
SdkResults(handles) ==
    {r \in [hasClearValues : BOOLEAN, clearValues : [HandleNames -> ClearValues],
            hasAbiEncoded : BOOLEAN, hasProof : BOOLEAN] :
        /\ ~r.hasClearValues =>
               /\ r.clearValues = [h \in HandleNames |-> Undefined]
               /\ ~r.hasAbiEncoded
        /\ r.hasAbiEncoded =>
               \A i \in 1..Len(handles) :
                   r.clearValues[handles[i]].t \in {"bigint", "boolean"}}

abiEncodedClearValues(handles, result) ==
    [i \in 1..Len(handles) |-> SdkWord(result.clearValues[handles[i]])]

\* abiCoder.encode of uint8 words: a value out of range is rejected
AbiEncodeUint8Ok(values) == \A i \in 1..Len(values) : values[i] \in 0..(Uint8Range - 1)

\* the first handle, in order, at which handles.map throws, and the reason
DecryptedThrows(handle, result) ==
    IF ~result.hasClearValues THEN "Cannot decrypt handle"
    ELSE IF result.clearValues[handle] \in {Undefined, Null}
      THEN "Decryption result is empty"
    ELSE IF isNaN(result.clearValues[handle]) THEN "Invalid decrypted value"
    ELSE ""

publicDecrypt(instance, handles, result) ==
    LET values == [i \in 1..Len(handles) |-> Number(result.clearValues[handles[i]]).n]
        failing == {i \in 1..Len(handles) : DecryptedThrows(handles[i], result) # ""}
        first == CHOOSE i \in failing : \A j \in failing : i <= j
    IN  IF instance = 0 THEN Threw("FHEVM not initialized")
        ELSE IF Len(handles) = 0 THEN Threw("Handles array cannot be empty")
        ELSE IF failing # {} THEN Threw(DecryptedThrows(handles[first], result))
        ELSE IF ~result.hasProof THEN Threw("Decryption proof does not exist")
        ELSE IF result.hasAbiEncoded
          THEN Returned([cleartexts |-> abiEncodedClearValues(handles, result),
                         decryptionProof |-> "proof", values |-> values])
        ELSE IF ~AbiEncodeUint8Ok(values) THEN Threw("value out-of-bounds")
        ELSE Returned([cleartexts |-> values, decryptionProof |-> "proof",
                       values |-> values])

\* One call of publicDecrypt on a drawn handle list and SDK result
DecryptInit ==
    /\ Init /\ NoPage
    /\ \E instance \in 0..1 :
           sdk = [fhevmInstance |-> instance, loaded |-> TRUE, created |-> instance,
                  calls |-> << >>]
    /\ \E handles \in HandleLists : \E result \in SdkResults(handles) :
           io = [fn |-> "none", handles |-> handles, result |-> result,
                 out |-> Returned(0)]

CallPublicDecrypt ==
    /\ io.fn = "none"
    /\ io' = [io EXCEPT !.fn = "publicDecrypt",
                        !.out = publicDecrypt(sdk.fhevmInstance, io.handles, io.result)]
    /\ UNCHANGED <<vars, app, running, sdk>>

DecryptNext == CallPublicDecrypt

DecryptSpec == DecryptInit /\ [][DecryptNext]_allVars

\* the handles a call asked for, and what the SDK result holds for them
Requested == {io.handles[i] : i \in 1..Len(io.handles)}
NoClearValue(h) ==
    ~io.result.hasClearValues \/ io.result.clearValues[h] \in {Undefined, Null}
IsNumber(v) == v.t \in {"bigint", "number"} /\ v # NaN
\* the values whose conversion to a number is NaN, and the number the
\* others convert to
ConvertsToNaN(v) == v = NaN \/ v = Undefined \/ (v.t = "string" /\ v.s \notin {"", "2"})
ConvertedNumber(v) == IF v.t = "string" THEN (IF v.s = "2" THEN 2 ELSE 0) ELSE v.n

MaxInitCalls == 3   \* initFhevm is called at most this many times

FhevmInit ==
    /\ Init /\ NoPage /\ NoIo
    /\ \E loaded \in BOOLEAN :
           sdk = [fhevmInstance |-> 0, loaded |-> loaded, created |-> 0,
                  calls |-> << >>]

\* initFhevm up to its first await: the early return, the throw without
\* the SDK, or the suspension at await initSDK()
initFhevm ==
    /\ Len(sdk.calls) < MaxInitCalls
    /\ sdk' = [sdk EXCEPT !.calls = Append(@,
                  IF sdk.fhevmInstance # 0
                    THEN [pc |-> "returned", inst |-> 0, ret |-> sdk.fhevmInstance]
                  ELSE IF ~sdk.loaded
                    THEN [pc |-> "threw", inst |-> 0, ret |-> 0]
                  ELSE [pc |-> "initSDK", inst |-> 0, ret |-> 0])]
    /\ UNCHANGED <<vars, app, running, io>>

\* await initSDK() resolves and createInstance(config) is called
initSDKResolved(i) ==
    /\ sdk.calls[i].pc = "initSDK"
    /\ sdk' = [sdk EXCEPT !.created = @ + 1,
                          !.calls[i].pc = "createInstance",
                          !.calls[i].inst = sdk.created + 1]
    /\ UNCHANGED <<vars, app, running, io>>

\* await createInstance(config) resolves: the assignment and the return
createInstanceResolved(i) ==
    /\ sdk.calls[i].pc = "createInstance"
    /\ sdk' = [sdk EXCEPT !.fhevmInstance = sdk.calls[i].inst,
                          !.calls[i].pc = "returned",
                          !.calls[i].ret = sdk.calls[i].inst]
    /\ UNCHANGED <<vars, app, running, io>>

\* await createInstance(config) rejects: initFhevm throws
createInstanceRejected(i) ==
    /\ sdk.calls[i].pc = "createInstance"
    /\ sdk' = [sdk EXCEPT !.calls[i].pc = "threw"]
    /\ UNCHANGED <<vars, app, running, io>>

\* the caller resumes after await initFhevm() and hands the instance it
\* got to setFhevmInstance
setFhevmInstance(i) ==
    /\ sdk.calls[i].pc = "returned"
    /\ sdk' = [sdk EXCEPT !.fhevmInstance = sdk.calls[i].ret,
                          !.calls[i].pc = "done"]
    /\ UNCHANGED <<vars, app, running, io>>

InitSDKResolves == \E i \in 1..Len(sdk.calls) : initSDKResolved(i)
CreateInstanceResolves == \E i \in 1..Len(sdk.calls) : createInstanceResolved(i)
CreateInstanceRejects == \E i \in 1..Len(sdk.calls) : createInstanceRejected(i)
SetFhevmInstanceCall == \E i \in 1..Len(sdk.calls) : setFhevmInstance(i)

FhevmNext ==
    \/ initFhevm
    \/ InitSDKResolves
    \/ CreateInstanceResolves
    \/ CreateInstanceRejects
    \/ SetFhevmInstanceCall

FhevmSpec == FhevmInit /\ [][FhevmNext]_allVars

\* the initFhevm calls that have returned an instance
ReturnedCalls == {i \in 1..Len(sdk.calls) : sdk.calls[i].pc \in {"returned", "done"}}

\* the initFhevm calls whose createInstance run is pending or has resolved
CreatingCalls ==
    {i \in 1..Len(sdk.calls) : sdk.calls[i].inst # 0 /\ sdk.calls[i].pc # "threw"}

\* C37: initFhevm creates the FHEVM instance at most once: for any number
\* and any interleaving of initFhevm calls, overlapping ones included, at
\* most one call runs createInstance without it failing, and every call
\* that returns returns the same instance.
C37_CreateInstanceRunsOnce ==
    /\ Cardinality(CreatingCalls) <= 1
    /\ \A i \in ReturnedCalls, j \in ReturnedCalls : sdk.calls[i].ret = sdk.calls[j].ret

\* ======================================================================
\* The page of one connected account (src/frontend/App.tsx,
\* src/frontend/components/GameBoard.tsx).  JavaScript runs one task at a
\* time, so a handler runs without interruption from one await to the
\* next; each action below is one such stretch.  running[i].pc names the
\* await invocation i is suspended at.  A transaction is mined in a step
\* of its own and the handler resumes with the receipt in a later step;
\* the account's transactions are mined in the order they were sent (their
\* nonces), running[i].nonce being the place of i's pending transaction in
\* that order.
\* Two encryptions of the same move by the account are named by the same
\* handle.
\* ======================================================================
MaxRunning == 2     \* no click is taken while this many invocations run

\* the connected account (address)
Me == 1

Invocations == 1..Len(running)

\* an invocation of handleMoveSelect(move) or handleResolve(gameId) with
\* its locals; overlapped tells that another handleMoveSelect invocation had
\* its playGame mined, creating a game, while this one was running
Invocation(fn, pc, move, gameId) ==
    [fn |-> fn, pc |-> pc, move |-> move, gameId |-> gameId,
     activeGameId |-> 0, resolveRequested |-> FALSE, reverted |-> FALSE,
     nonce |-> 0,
     playerMoveHandle |-> ZeroHandle, cleartexts |-> 0,
     decryptionProof |-> NoProof, overlapped |-> FALSE]

\* the invocations with a transaction sent and not yet mined
Pending == {j \in Invocations : running[j].nonce > 0}

\* the other transactions move up when the first pending one is mined
MovedUp(inv) == [inv EXCEPT !.nonce = IF @ > 0 THEN @ - 1 ELSE 0]

RemoveAt(seq, i) == [j \in 1..(Len(seq) - 1) |-> IF j < i THEN seq[j] ELSE seq[j + 1]]

\* the page after initializeWallet and loadPlayerStats on a new ledger
AppInit ==
    /\ Init /\ NoIo
    /\ app = [gameStatus |-> "WAITING_FOR_PLAYER", currentGameId |-> 0,
              history |-> << >>, isLoading |-> FALSE]
    /\ running = << >>
    /\ sdk = [fhevmInstance |-> 1, loaded |-> TRUE, created |-> 1,
              calls |-> << >>]

\* ------------------------------------------------------- the user's clicks
\* GameBoard: a move button is enabled while status is WAITING_FOR_PLAYER;
\* handleMoveSelect runs up to await contract.getPlayerActiveGame(address)
ClickMove ==
    /\ app.gameStatus = "WAITING_FOR_PLAYER"
    /\ Len(running) < MaxRunning
    /\ \E move \in Moves :
           running' = Append(running,
               Invocation("handleMoveSelect", "getPlayerActiveGame", move, 0))
    /\ app' = [app EXCEPT !.isLoading = TRUE]
    /\ UNCHANGED <<vars, sdk, io>>

\* the "Resolve Now" button of the Unfinished Game alert is rendered and
\* enabled
ResolveNowShown ==
    /\ app.currentGameId # 0
    /\ app.gameStatus = "WAITING_FOR_PLAYER"
    /\ ~app.isLoading

\* a click on it; handleResolve runs up to await contract.getGame(gameId)
ClickResolveNow ==
    /\ ResolveNowShown
    /\ Len(running) < MaxRunning
    /\ running' = Append(running,
           Invocation("handleResolve", "getGame", Move.ROCK, app.currentGameId))
    /\ app' = [app EXCEPT !.isLoading = TRUE]
    /\ UNCHANGED <<vars, sdk, io>>

\* the reset button of the REVEALED phase
handleReset ==
    /\ app.gameStatus = "REVEALED"
    /\ app' = [app EXCEPT !.currentGameId = 0, !.gameStatus = "WAITING_FOR_PLAYER"]
    /\ UNCHANGED <<vars, running, sdk, io>>

\* --------------------------------------------------------- handleMoveSelect
\* the catch and finally blocks of handleMoveSelect
MoveSelectCatch(i) ==
    /\ running' = RemoveAt(running, i)
    /\ app' = [app EXCEPT !.gameStatus = "WAITING_FOR_PLAYER", !.isLoading = FALSE]

\* getPlayerActiveGame has answered: return on a non-zero entry, otherwise
\* go on to await encryptMove
activeGameRead_IgnoresEntry(i) ==
    /\ running[i].fn = "handleMoveSelect" /\ running[i].pc = "getPlayerActiveGame"
    /\ running' = [running EXCEPT ![i].pc = "encryptMove",
                          ![i].activeGameId = getPlayerActiveGame(Me)]
    /\ app' = [app EXCEPT !.gameStatus = "ENCRYPTING"]
    /\ UNCHANGED <<vars, sdk, io>>

activeGameRead(i) ==
    /\ running[i].fn = "handleMoveSelect" /\ running[i].pc = "getPlayerActiveGame"
    /\ IF getPlayerActiveGame(Me) # 0
         THEN /\ running' = RemoveAt(running, i)
              /\ app' = [app EXCEPT !.isLoading = FALSE]
         ELSE /\ running' = [running EXCEPT ![i].pc = "encryptMove",
                                   ![i].activeGameId = getPlayerActiveGame(Me)]
              /\ app' = [app EXCEPT !.gameStatus = "ENCRYPTING"]
    /\ UNCHANGED <<vars, sdk, io>>

\* encryptMove has answered: the handle encrypts moveEnumToNum(move) for
\* the account; go on to await contract.playGame(data, proof)
moveEncrypted(i) ==
    /\ running[i].fn = "handleMoveSelect" /\ running[i].pc = "encryptMove"
    /\ running' = [running EXCEPT ![i].pc = "playGame",
           ![i].playerMoveHandle =
               [user |-> Me, plain |-> moveEnumToNum(running[i].move).value]]
    /\ app' = [app EXCEPT !.gameStatus = "SUBMITTED"]
    /\ UNCHANGED <<vars, sdk, io>>

\* contract.playGame(data, proof) has answered: the call is rejected by
\* the gas estimate when it would revert, otherwise the transaction is sent
playGameSent(i) ==
    /\ running[i].fn = "handleMoveSelect" /\ running[i].pc = "playGame"
    /\ IF playGameErr(Me, running[i].playerMoveHandle, "attested") # ""
         THEN MoveSelectCatch(i)
         ELSE /\ running' = [running EXCEPT ![i].pc = "wait",
                                   ![i].nonce = Cardinality(Pending) + 1]
              /\ UNCHANGED app
    /\ UNCHANGED <<vars, sdk, io>>

\* the playGame transaction is mined
playGameMined(i) ==
    /\ running[i].fn = "handleMoveSelect" /\ running[i].pc = "wait"
    /\ running[i].nonce = 1
    /\ playGame(Me, running[i].playerMoveHandle, "attested")
    /\ LET reverted == playGameErr(Me, running[i].playerMoveHandle, "attested") # ""
       IN  running' = [j \in Invocations |->
               IF j = i
                 THEN [running[j] EXCEPT !.pc = "receipt", !.reverted = reverted,
                          !.nonce = 0,
                          !.gameId = IF reverted THEN 0 ELSE gameIdCounter]
               ELSE IF ~reverted /\ running[j].fn = "handleMoveSelect"
                 THEN [MovedUp(running[j]) EXCEPT !.overlapped = TRUE]
               ELSE MovedUp(running[j])]
    /\ UNCHANGED <<app, sdk, io>>

\* tx.wait() has answered: it throws for a reverted transaction; otherwise
\* the game id and the opponent's move are read from the receipt and
\* handleResolve(gameId) is scheduled
playGameConfirmed(i) ==
    /\ running[i].fn = "handleMoveSelect" /\ running[i].pc = "receipt"
    /\ IF running[i].reverted
         THEN MoveSelectCatch(i)
       ELSE IF moveNumToEnum(games[running[i].gameId].opponentMove).threw
         THEN /\ running' = RemoveAt(running, i)
              /\ app' = [app EXCEPT !.currentGameId = running[i].gameId,
                                    !.gameStatus = "WAITING_FOR_PLAYER",
                                    !.isLoading = FALSE]
         ELSE /\ running' = Append(RemoveAt(running, i),
                      Invocation("handleResolve", "timer", Move.ROCK,
                                 running[i].gameId))
              /\ app' = [app EXCEPT !.currentGameId = running[i].gameId,
                                    !.gameStatus = "BOTH_SUBMITTED",
                                    !.isLoading = FALSE]
    /\ UNCHANGED <<vars, sdk, io>>

\* ------------------------------------------------------------ handleResolve
\* the catch and finally blocks of handleResolve
ResolveCatch(i) ==
    /\ running' = RemoveAt(running, i)
    /\ app' = [app EXCEPT !.isLoading = FALSE]

\* the timer set by handleMoveSelect fires; handleResolve runs up to
\* await contract.getGame(gameId)
timerFired(i) ==
    /\ running[i].fn = "handleResolve" /\ running[i].pc = "timer"
    /\ running' = [running EXCEPT ![i].pc = "getGame"]
    /\ app' = [app EXCEPT !.isLoading = TRUE]
    /\ UNCHANGED <<vars, sdk, io>>

\* getGame has answered: request the resolve, or read the handle when the
\* resolve was requested before
gameRead_AlwaysRequests(i) ==
    /\ running[i].fn = "handleResolve" /\ running[i].pc = "getGame"
    /\ IF getGameErr(running[i].gameId) # ""
         THEN ResolveCatch(i)
         ELSE /\ running' = [running EXCEPT
                     ![i].resolveRequested = getGame(running[i].gameId).resolveRequested,
                     ![i].pc = "requestResolve"]
              /\ UNCHANGED app
    /\ UNCHANGED <<vars, sdk, io>>

gameRead(i) ==
    /\ running[i].fn = "handleResolve" /\ running[i].pc = "getGame"
    /\ IF getGameErr(running[i].gameId) # ""
         THEN ResolveCatch(i)
         ELSE /\ running' = [running EXCEPT
                     ![i].resolveRequested = getGame(running[i].gameId).resolveRequested,
                     ![i].pc = IF getGame(running[i].gameId).resolveRequested
                                 THEN "getPlayerEncryptedMove"
                                 ELSE "requestResolve"]
              /\ UNCHANGED app
    /\ UNCHANGED <<vars, sdk, io>>

\* contract.requestResolve(gameId) has answered
requestResolveSent(i) ==
    /\ running[i].fn = "handleResolve" /\ running[i].pc = "requestResolve"
    /\ IF requestResolveErr(Me, running[i].gameId) # ""
         THEN ResolveCatch(i)
         ELSE /\ running' = [running EXCEPT ![i].pc = "requestWait",
                                   ![i].nonce = Cardinality(Pending) + 1]
              /\ UNCHANGED app
    /\ UNCHANGED <<vars, sdk, io>>

\* the requestResolve transaction is mined
requestResolveMined(i) ==
    /\ running[i].fn = "handleResolve" /\ running[i].pc = "requestWait"
    /\ running[i].nonce = 1
    /\ requestResolve(Me, running[i].gameId)
    /\ running' = [j \in Invocations |->
           IF j = i
             THEN [running[j] EXCEPT !.pc = "requestReceipt", !.nonce = 0,
                      !.reverted = requestResolveErr(Me, running[i].gameId) # ""]
             ELSE MovedUp(running[j])]
    /\ UNCHANGED <<app, sdk, io>>

\* requestTx.wait() has answered: the handle is read from the
\* ResolveRequested event of the receipt; wait for the gateway
requestResolveConfirmed(i) ==
    /\ running[i].fn = "handleResolve" /\ running[i].pc = "requestReceipt"
    /\ IF running[i].reverted
         THEN ResolveCatch(i)
         ELSE /\ running' = [running EXCEPT ![i].pc = "publicDecrypt",
                     ![i].playerMoveHandle =
                         games[running[i].gameId].encryptedPlayerMove]
              /\ UNCHANGED app
    /\ UNCHANGED <<vars, sdk, io>>

\* getPlayerEncryptedMove has answered; wait for the gateway
encryptedMoveRead(i) ==
    /\ running[i].fn = "handleResolve" /\ running[i].pc = "getPlayerEncryptedMove"
    /\ IF getPlayerEncryptedMoveErr(running[i].gameId) # ""
         THEN ResolveCatch(i)
         ELSE /\ running' = [running EXCEPT ![i].pc = "publicDecrypt",
                     ![i].playerMoveHandle = getPlayerEncryptedMove(running[i].gameId)]
              /\ UNCHANGED app
    /\ UNCHANGED <<vars, sdk, io>>

\* publicDecrypt([playerMoveHandle]) has answered: the KMS serves a handle
\* that is publicly decryptable, with its plaintext and signature
moveDecrypted(i) ==
    /\ running[i].fn = "handleResolve" /\ running[i].pc = "publicDecrypt"
    /\ running[i].playerMoveHandle \in publiclyDecryptable
    /\ running' = [running EXCEPT ![i].pc = "resolveGame",
           ![i].cleartexts = running[i].playerMoveHandle.plain,
           ![i].decryptionProof = KmsProof(running[i].playerMoveHandle)]
    /\ UNCHANGED <<vars, app, sdk, io>>

\* publicDecrypt throws: the gateway is not ready or does not answer
decryptFailed(i) ==
    /\ running[i].fn = "handleResolve" /\ running[i].pc = "publicDecrypt"
    /\ ResolveCatch(i)
    /\ UNCHANGED <<vars, sdk, io>>

\* contract.resolveGame(gameId, cleartexts, decryptionProof) has answered
resolveGameSent(i) ==
    /\ running[i].fn = "handleResolve" /\ running[i].pc = "resolveGame"
    /\ IF resolveGameErr(running[i].gameId, running[i].cleartexts,
                         running[i].decryptionProof) # ""
         THEN ResolveCatch(i)
         ELSE /\ running' = [running EXCEPT ![i].pc = "resolveWait",
                                   ![i].nonce = Cardinality(Pending) + 1]
              /\ UNCHANGED app
    /\ UNCHANGED <<vars, sdk, io>>

\* the resolveGame transaction is mined
resolveGameMined(i) ==
    /\ running[i].fn = "handleResolve" /\ running[i].pc = "resolveWait"
    /\ running[i].nonce = 1
    /\ resolveGame(Me, running[i].gameId, running[i].cleartexts,
                   running[i].decryptionProof)
    /\ running' = [j \in Invocations |->
           IF j = i
             THEN [running[j] EXCEPT !.pc = "resolveReceipt", !.nonce = 0,
                      !.reverted = resolveGameErr(running[i].gameId,
                          running[i].cleartexts, running[i].decryptionProof) # ""]
             ELSE MovedUp(running[j])]
    /\ UNCHANGED <<app, sdk, io>>

\* resolveTx.wait() has answered: the GameResolved event of the receipt is
\* converted and shown, the history gets its entry, and after
\* loadPlayerStats the current game id is cleared
resolveGameConfirmed(i) ==
    /\ running[i].fn = "handleResolve" /\ running[i].pc = "resolveReceipt"
    /\ LET g == running[i].gameId
           playerMoveEnum == moveNumToEnum(games[g].revealedPlayerMove)
           opponentMoveEnum == moveNumToEnum(games[g].opponentMove)
           gameResult == resultNumToEnum(games[g].result)
       IN  IF running[i].reverted \/ playerMoveEnum.threw \/ opponentMoveEnum.threw
              \/ gameResult.threw
             THEN ResolveCatch(i)
             ELSE /\ running' = RemoveAt(running, i)
                  /\ app' = [app EXCEPT
                         !.gameStatus = "REVEALED",
                         !.history = <<[id |-> g, playerMove |-> playerMoveEnum.value,
                                        opponentMove |-> opponentMoveEnum.value,
                                        result |-> gameResult.value]>> \o @,
                         !.currentGameId = 0,
                         !.isLoading = FALSE]
    /\ UNCHANGED <<vars, sdk, io>>

\* ------------------------------------------------------------------ the page
ActiveGameAnswers == \E i \in Invocations : activeGameRead(i)
EncryptMoveAnswers == \E i \in Invocations : moveEncrypted(i)
PlayGameAnswers == \E i \in Invocations : playGameSent(i)
PlayGameIsMined == \E i \in Invocations : playGameMined(i)
PlayGameWaitAnswers == \E i \in Invocations : playGameConfirmed(i)
TimerFires == \E i \in Invocations : timerFired(i)
GetGameAnswers == \E i \in Invocations : gameRead(i)
RequestResolveAnswers == \E i \in Invocations : requestResolveSent(i)
RequestResolveIsMined == \E i \in Invocations : requestResolveMined(i)
RequestWaitAnswers == \E i \in Invocations : requestResolveConfirmed(i)
EncryptedMoveAnswers == \E i \in Invocations : encryptedMoveRead(i)
PublicDecryptAnswers == \E i \in Invocations : moveDecrypted(i)
PublicDecryptThrows == \E i \in Invocations : decryptFailed(i)
ResolveGameAnswers == \E i \in Invocations : resolveGameSent(i)
ResolveGameIsMined == \E i \in Invocations : resolveGameMined(i)
ResolveWaitAnswers == \E i \in Invocations : resolveGameConfirmed(i)

AppNext ==
    \/ ClickMove
    \/ ClickResolveNow
    \/ handleReset
    \/ ActiveGameAnswers
    \/ EncryptMoveAnswers
    \/ PlayGameAnswers
    \/ PlayGameIsMined
    \/ PlayGameWaitAnswers
    \/ TimerFires
    \/ GetGameAnswers
    \/ RequestResolveAnswers
    \/ RequestResolveIsMined
    \/ RequestWaitAnswers
    \/ EncryptedMoveAnswers
    \/ PublicDecryptAnswers
    \/ PublicDecryptThrows
    \/ ResolveGameAnswers
    \/ ResolveGameIsMined
    \/ ResolveWaitAnswers

AppSpec == AppInit /\ [][AppNext]_allVars

\* ---------------------------------------------------------- claims C34..C36
MoveSelects == {i \in Invocations : running[i].fn = "handleMoveSelect"}
Resolves == {i \in Invocations : running[i].fn = "handleResolve"}

\* handleMoveSelect goes past its check only on an entry of 0, and the
\* account never has two unresolved games
C34_NoSecondActiveGame ==
    /\ \A i \in MoveSelects :
           running[i].pc \in {"encryptMove", "playGame", "wait", "receipt"} =>
               running[i].activeGameId = 0
    /\ Cardinality(Unresolved(Me)) <= 1
    /\ \A i \in MoveSelects :
           (running[i].pc = "receipt" /\ running[i].reverted) => running[i].gameId = 0

\* an invocation whose playGame was mined and created a game although
\* another invocation, running at the same time, had created one
CreatedSecondGame(i) ==
    /\ running[i].fn = "handleMoveSelect" /\ running[i].pc = "receipt"
    /\ running[i].overlapped /\ running[i].gameId # 0

\* the step in which handleMoveSelect invocation i ends in its catch block
MoveSelectFails(i) ==
    /\ i \in MoveSelects
    /\ running[i].pc \in {"playGame", "receipt"}
    /\ running' = RemoveAt(running, i)

\* the step in which invocation i alone moves on to its next await
MovesOn(i) ==
    /\ Len(running') = Len(running)
    /\ running'[i].pc # running[i].pc
    /\ \A j \in Invocations \ {i} :
           /\ running'[j].fn = running[j].fn /\ running'[j].pc = running[j].pc
           /\ running'[j].gameId = running[j].gameId

C34_ErrorPath ==
    \A i \in MoveSelects :
        /\ (running[i].pc = "playGame" /\ playerActiveGame[Me] # 0) => ~MovesOn(i)
        /\ (running[i].pc = "wait" /\ playerActiveGame[Me] # 0 /\ MovesOn(i)) =>
               /\ running'[i].pc = "receipt" /\ running'[i].reverted
               /\ UNCHANGED vars
        /\ (running[i].pc = "receipt" /\ running[i].reverted) => ~MovesOn(i)
        /\ MoveSelectFails(i) =>
               /\ app'.gameStatus = "WAITING_FOR_PLAYER" /\ ~app'.isLoading
               /\ UNCHANGED vars

\* C34 as stated: handleMoveSelect sends playGame only after reading an
\* active-game entry of 0, the account never gets a second active game, and
\* of two handleMoveSelect invocations running at the same time at most one
\* creates a game (the other ends in its error path with the page back in
\* WAITING_FOR_PLAYER).
C34_AtMostOneGameCreated ==
    /\ C34_NoSecondActiveGame
    /\ \A i \in Invocations : ~CreatedSecondGame(i)

\* C34 (amended): handleMoveSelect sends playGame only after reading an
\* active-game entry of 0 and the account never has two unresolved games.
\* Of two invocations running at the same time, one whose playGame is sent
\* or mined while the account's entry is not 0 creates no game and ends in
\* its catch block with the page in WAITING_FOR_PLAYER and nothing changed
\* on the ledger; both create a game only when the first game was resolved
\* before the second playGame was mined.
C34_SecondGameOnlyAfterResolution ==
    /\ C34_NoSecondActiveGame
    /\ \A i \in Invocations :
           CreatedSecondGame(i) =>
               \A g \in Created \ {running[i].gameId} :
                   games[g].player = Me => games[g].isResolved /\ g < running[i].gameId

C34_NeverTwoActiveGames ==
    []C34_SecondGameOnlyAfterResolution /\ [][C34_ErrorPath]_allVars

\* two invocations ran at the same time and the second has created game 2
\* after the first one's game 1 was resolved
C34_Witness ==
    \E i \in Invocations :
        /\ CreatedSecondGame(i) /\ running[i].gameId = 2
        /\ games[1].isResolved /\ games[1].player = Me

\* the entries of the page's history for game g
HistoryEntries(g) == {k \in 1..Len(app.history) : app.history[k].id = g}

\* C35: handleResolve(g) sends requestResolve only when getGame(g) said
\* resolveRequested = false and otherwise reads the handle with
\* getPlayerEncryptedMove; in both branches the handle handed to
\* publicDecrypt is the one the ledger holds for g, publicly decryptable by
\* then; resolveGame is sent only after requestResolve was confirmed (the
\* game is requested and its ResolveRequested event is logged), with the
\* KMS's answer for that handle; however handleResolve(g) invocations
\* overlap, at most one resolveGame for g succeeds and the history gets at
\* most one entry for g, which shows what the ledger revealed.
C35_ResolveFollowsProtocol ==
    /\ \A i \in Resolves :
           LET g == running[i].gameId
           IN  /\ g \in Created /\ games[g].player = Me
               /\ running[i].pc \in {"requestResolve", "requestWait"} =>
                      ~running[i].resolveRequested
               /\ running[i].pc = "getPlayerEncryptedMove" =>
                      running[i].resolveRequested /\ games[g].resolveRequested
               /\ running[i].pc \in {"publicDecrypt", "resolveGame", "resolveWait"} =>
                      /\ running[i].playerMoveHandle = games[g].encryptedPlayerMove
                      /\ running[i].playerMoveHandle \in publiclyDecryptable
                      /\ games[g].resolveRequested
                      /\ EventsNamed(g, "ResolveRequested") # {}
               /\ running[i].pc \in {"resolveGame", "resolveWait"} =>
                      /\ running[i].cleartexts = games[g].encryptedPlayerMove.plain
                      /\ running[i].decryptionProof = KmsProof(games[g].encryptedPlayerMove)
    /\ \A g \in Created :
           /\ Cardinality(RevealEvents(g)) <= 1
           /\ Cardinality(EventsNamed(g, "ResolveRequested")) <= 1
           /\ Cardinality(HistoryEntries(g)) <= 1
           /\ \A k \in HistoryEntries(g) :
                  /\ games[g].isResolved /\ RevealEvents(g) # {}
                  /\ app.history[k].playerMove = LedgerMoveName(games[g].revealedPlayerMove)
                  /\ app.history[k].opponentMove = LedgerMoveName(games[g].opponentMove)
                  /\ app.history[k].result = LedgerResultName(games[g].result)

\* two handleResolve invocations for the same game had their resolveGame
\* mined: the first succeeded, the second reverted
C35_Witness ==
    \E i \in Resolves, j \in Resolves :
        /\ i # j /\ running[i].gameId = running[j].gameId
        /\ running[i].pc = "resolveReceipt" /\ ~running[i].reverted
        /\ running[j].pc = "resolveReceipt" /\ running[j].reverted

\* the step in which handleResolve invocation i, the only one running,
\* ends in its catch block
ResolveFails(i) ==
    /\ i \in Resolves /\ Len(running) = 1
    /\ running[i].pc # "timer"
    /\ running' = << >>
    /\ app'.history = app.history

\* C36: when a handleResolve(g) attempt fails (requestResolve, the
\* decryption or resolveGame throws) while g is still unresolved on the
\* ledger, and no other invocation is running, the page is left in a state
\* where the user can start handleResolve(g) again: the "Resolve Now"
\* button for g is shown and enabled.
C36_FailedResolveCanBeRetried ==
    [][\A i \in Invocations :
           (ResolveFails(i) /\ ~games'[running[i].gameId].isResolved) =>
               (ResolveNowShown' /\ app'.currentGameId = running[i].gameId)]_allVars

====
